---- MODULE Spec2Model ----
(***************************************************************************)
(* Document classification, query-intent classification and intent-aware  *)
(* reranking of gillenha/base-rag, modelled from src/src/utils.            *)
(*                                                                         *)
(* Texts, filenames, queries and regular expressions are TLA+ strings.    *)
(* Category scores of the classifiers are doubles, encoded as integers    *)
(* (see FloatUnit).  Other floating-point values are exact decimals       *)
(* scaled to integers: metadata values in thousandths, relevance scores   *)
(* in 1/100000.                                                            *)
(***************************************************************************)
EXTENDS Integers, Sequences, FiniteSets, TLC

(***************************************************************************)
(* Strings and characters (Python str methods used by the code).          *)
(***************************************************************************)
Ch(s, i) == SubSeq(s, i, i)

ToLowerMap ==
    [A |-> "a", B |-> "b", C |-> "c", D |-> "d", E |-> "e", F |-> "f", G |-> "g", H |-> "h", I |-> "i", J |-> "j", K |-> "k", L |-> "l", M |-> "m",
     N |-> "n", O |-> "o", P |-> "p", Q |-> "q", R |-> "r", S |-> "s", T |-> "t", U |-> "u", V |-> "v", W |-> "w", X |-> "x", Y |-> "y", Z |-> "z"]
ToUpperMap ==
    [a |-> "A", b |-> "B", c |-> "C", d |-> "D", e |-> "E", f |-> "F", g |-> "G", h |-> "H", i |-> "I", j |-> "J", k |-> "K", l |-> "L", m |-> "M",
     n |-> "N", o |-> "O", p |-> "P", q |-> "Q", r |-> "R", s |-> "S", t |-> "T", u |-> "U", v |-> "V", w |-> "W", x |-> "X", y |-> "Y", z |-> "Z"]
UpperSet == DOMAIN ToLowerMap
LowerSet == DOMAIN ToUpperMap
DigitSet == {"0", "1", "2", "3", "4", "5", "6", "7", "8", "9"}
\* rank of a letter or digit in code point order (digits, upper, lower)
CodeMap ==
    LET ordered == "0123456789ABCDEFGHIJKLMNOPQRSTUVWXYZabcdefghijklmnopqrstuvwxyz"
    IN [c \in UpperSet \cup LowerSet \cup DigitSet |->
           CHOOSE i \in 1..Len(ordered) : Ch(ordered, i) = c]

IsUpper(c) == c \in UpperSet
IsLowerCh(c) == c \in LowerSet
IsDigit(c) == c \in DigitSet
IsSpace(c) == c \in {" ", "\t", "\n", "\r", "\f"}
IsWordCh(c) == IsUpper(c) \/ IsLowerCh(c) \/ IsDigit(c) \/ c = "_"

LowerCh(c) == IF IsUpper(c) THEN ToLowerMap[c] ELSE c
UpperCh(c) == IF IsLowerCh(c) THEN ToUpperMap[c] ELSE c

\* str.lower()
RECURSIVE lower(_)
lower(s) ==
    IF Len(s) = 0 THEN ""
    ELSE IF Len(s) = 1 THEN LowerCh(s)
    ELSE LET h == Len(s) \div 2
         IN lower(SubSeq(s, 1, h)) \o lower(SubSeq(s, h + 1, Len(s)))

\* `needle in haystack` on Python strings
Contains(haystack, needle) ==
    \E i \in 1..(Len(haystack) - Len(needle) + 1) :
        SubSeq(haystack, i, i + Len(needle) - 1) = needle

\* any(x in text for x in xs) over a list of phrases
AnyIn(xs, text) == \E i \in 1..Len(xs) : Contains(text, xs[i])

Min2(a, b) == IF a <= b THEN a ELSE b
SetMin(S) == CHOOSE m \in S : \A n \in S : m <= n

(***************************************************************************)
(* Python's re module, as far as the patterns of the repository use it:   *)
(* literals, the escapes \s \d \w and escaped literals, `.`, bracket      *)
(* classes with ranges, the quantifiers + * ? and their lazy forms, the   *)
(* anchors ^ and $, and groups (which only delimit).  A pattern that re   *)
(* cannot compile is one for which re.findall / re.search raise re.error. *)
(***************************************************************************)
IsQuant(c) == c \in {"+", "*", "?"}

\* position of the "]" closing the class opened at p[pi], 0 if unterminated
RECURSIVE ClassEnd(_, _)
ClassEnd(p, j) ==
    IF j > Len(p) THEN 0
    ELSE IF Ch(p, j) = "\\" THEN ClassEnd(p, j + 2)
    ELSE IF Ch(p, j) = "]" THEN j
    ELSE ClassEnd(p, j + 1)

\* number of pattern characters of the atom starting at p[pi]
AtomLen(p, pi) ==
    IF Ch(p, pi) = "\\" THEN 2
    ELSE IF Ch(p, pi) = "[" THEN ClassEnd(p, pi + 1) - pi + 1
    ELSE 1

EscapeMatches(e, c) ==
    IF e = "s" THEN IsSpace(c)
    ELSE IF e = "d" THEN IsDigit(c)
    ELSE IF e = "w" THEN IsWordCh(c)
    ELSE c = e

CharEq(a, c, ic) == IF ic THEN LowerCh(a) = LowerCh(c) ELSE a = c

CodeOf(c) == IF c \in DOMAIN CodeMap THEN CodeMap[c] ELSE 0

InRange(lo, hi, c) == CodeOf(lo) # 0 /\ CodeOf(c) # 0 /\ CodeOf(lo) <= CodeOf(c) /\ CodeOf(c) <= CodeOf(hi)

\* does c belong to the class body p[j..e] ?
RECURSIVE InClass(_, _, _, _, _)
InClass(p, j, e, c, ic) ==
    IF j > e THEN FALSE
    ELSE IF Ch(p, j) = "\\" THEN EscapeMatches(Ch(p, j + 1), c) \/ InClass(p, j + 2, e, c, ic)
    ELSE IF j + 2 <= e /\ Ch(p, j + 1) = "-"
         THEN \/ InRange(Ch(p, j), Ch(p, j + 2), c)
              \/ (ic /\ (InRange(Ch(p, j), Ch(p, j + 2), LowerCh(c))
                         \/ InRange(Ch(p, j), Ch(p, j + 2), UpperCh(c))))
              \/ InClass(p, j + 3, e, c, ic)
    ELSE CharEq(Ch(p, j), c, ic) \/ InClass(p, j + 1, e, c, ic)

AtomMatches(p, pi, c, ic) ==
    LET a == Ch(p, pi)
    IN IF a = "\\" THEN EscapeMatches(Ch(p, pi + 1), c)
       ELSE IF a = "[" THEN InClass(p, pi + 1, ClassEnd(p, pi + 1) - 1, c, ic)
       ELSE IF a = "." THEN c # "\n"
       ELSE CharEq(a, c, ic)

\* the positions of t[lo..hi] whose character does not match the atom
RunStops(p, pi, t, lo, hi, ic) == {j \in lo..hi : ~AtomMatches(p, pi, Ch(t, j), ic)}

FirstOr(stops, otherwise) == IF stops = {} THEN otherwise ELSE SetMin(stops)

\* length of the longest run of text characters from t[ti] matching the atom, at most cap
RunLen(p, pi, t, ti, ic, cap) ==
    LET hi == Min2(Len(t), ti + cap - 1)
        near == Min2(hi, ti + 7)   \* most runs are short: the characters near t[ti] first
    IN FirstOr(RunStops(p, pi, t, ti, near, ic),
               FirstOr(RunStops(p, pi, t, near + 1, hi, ic), hi + 1)) - ti

\* number of pattern characters from p[pi] that are literals matched one for
\* one: up to the next special character, less the literal a quantifier binds
IsSpecial(c) == c \in {"\\", "[", "]", ".", "(", ")", "$", "^", "+", "*", "?", "|", "{", "}"}

LiteralRun(p, pi) ==
    LET specials == {j \in pi..Len(p) : IsSpecial(Ch(p, j))}
        stop == IF specials = {} THEN Len(p) + 1 ELSE SetMin(specials)
    IN IF stop <= Len(p) /\ IsQuant(Ch(p, stop)) THEN stop - pi - 1 ELSE stop - pi

\* MatchHere: the pattern from p[pi] matched at t[ti]; the index after the
\* match, or 0 when there is none (backtracking in re's order of preference).
RECURSIVE MatchHere(_, _, _, _, _)
\* the repetition counts of ks that let the rest of the pattern match, each
\* with the index after the match
MatchEnds(p, nxt, t, ti, ic, ks) ==
    {e \in {<<k, MatchHere(p, nxt, t, ti + k, ic)>> : k \in ks} : e[2] # 0}
\* the repetition counts from k down to least, the first that lets the rest match
GreatestEnd(ends) == IF ends = {} THEN 0 ELSE (CHOOSE e \in ends : \A f \in ends : f[1] <= e[1])[2]
TryGreedy(p, nxt, t, ti, ic, k, least) == GreatestEnd(MatchEnds(p, nxt, t, ti, ic, least..k))
\* the repetition counts from k up to most, the first that lets the rest match
LeastEnd(ends) == IF ends = {} THEN 0 ELSE (CHOOSE e \in ends : \A f \in ends : e[1] <= f[1])[2]
TryLazy(p, nxt, t, ti, ic, k, most) == LeastEnd(MatchEnds(p, nxt, t, ti, ic, k..most))

\* one step of the matcher at p[pi] and t[ti]: no match ("fail"), the rest of
\* the pattern to match from another place ("go"), or a repeated atom with
\* its longest run and the counts to try ("lazy", "greedy")
MatchStep(p, pi, t, ti, ic) ==
    LET go(next, at) == [kind |-> "go", pi |-> next, ti |-> at]
        fail == [kind |-> "fail"]
        literals == LiteralRun(p, pi)
        n == AtomLen(p, pi)
        q == IF pi + n <= Len(p) /\ IsQuant(Ch(p, pi + n)) THEN Ch(p, pi + n) ELSE ""
        lazy == q # "" /\ pi + n + 1 <= Len(p) /\ Ch(p, pi + n + 1) = "?"
        least == IF q \in {"*", "?"} THEN 0 ELSE 1
        cap == IF q \in {"+", "*"} THEN Len(t) ELSE 1
        repeated(run) ==
            IF run < least THEN fail
            ELSE [kind |-> IF lazy THEN "lazy" ELSE "greedy",
                  nxt |-> pi + n + (IF q = "" THEN 0 ELSE 1) + (IF lazy THEN 1 ELSE 0),
                  ti |-> ti, least |-> least, run |-> run]
    IN IF Ch(p, pi) \in {"(", ")"} THEN go(pi + 1, ti)
       ELSE IF Ch(p, pi) = "$"
            THEN IF ti = Len(t) + 1 \/ (ti = Len(t) /\ Ch(t, ti) = "\n")
                 THEN go(pi + 1, ti) ELSE fail
       ELSE IF Ch(p, pi) = "^"
            THEN IF ti = 1 THEN go(pi + 1, ti) ELSE fail
       ELSE IF literals > 0
            THEN IF /\ ti + literals - 1 <= Len(t)
                    /\ \A j \in 0..(literals - 1) : CharEq(Ch(p, pi + j), Ch(t, ti + j), ic)
                 THEN go(pi + literals, ti + literals)
                 ELSE fail
       ELSE repeated(RunLen(p, pi, t, ti, ic, cap))

MatchRest(p, t, ic, step) ==
    CASE step.kind = "fail" -> 0
      [] step.kind = "go" -> MatchHere(p, step.pi, t, step.ti, ic)
      [] step.kind = "lazy" -> TryLazy(p, step.nxt, t, step.ti, ic, step.least, step.run)
      [] step.kind = "greedy" -> TryGreedy(p, step.nxt, t, step.ti, ic, step.run, step.least)

MatchHere(p, pi, t, ti, ic) ==
    IF pi > Len(p) THEN ti ELSE MatchRest(p, t, ic, MatchStep(p, pi, t, ti, ic))

\* the next special character of the pattern from p[from] on, Len(p) + 1 if
\* there is none: the literals before it compile and can be repeated
NextSpecial(p, from) ==
    LET specials == {j \in from..Len(p) : IsSpecial(Ch(p, j))}
    IN IF specials = {} THEN Len(p) + 1 ELSE SetMin(specials)

\* one step of the compiler at p[pi], inside depth open groups, canRepeat
\* telling whether a quantifier may follow: whether it is accepted, and where
\* and how the compiler goes on
CompileStep(p, pi, depth, canRepeat) ==
    LET c == Ch(p, pi)
        go(ok, next, d, r) == [ok |-> ok, pi |-> next, depth |-> d, canRepeat |-> r]
    IN CASE c = "\\" -> go(pi + 1 <= Len(p), pi + 2, depth, TRUE)
         [] c = "[" -> go(ClassEnd(p, pi + 1) # 0, ClassEnd(p, pi + 1) + 1, depth, TRUE)
         [] c = "(" -> go(TRUE, pi + 1, depth + 1, FALSE)
         [] c = ")" -> go(depth > 0, pi + 1, depth - 1, TRUE)
         [] IsQuant(c) ->
                go(canRepeat,
                   IF pi + 1 <= Len(p) /\ Ch(p, pi + 1) = "?" THEN pi + 2 ELSE pi + 1,
                   depth, FALSE)
         [] OTHER -> go(TRUE, NextSpecial(p, pi + 1), depth, TRUE)

\* re.error at compile time: unbalanced group, unterminated class, nothing to
\* repeat, or a trailing backslash
RECURSIVE Compiles(_, _, _, _)
CompileRest(p, step) == step.ok /\ Compiles(p, step.pi, step.depth, step.canRepeat)
Compiles(p, pi, depth, canRepeat) ==
    IF pi > Len(p) THEN depth = 0 ELSE CompileRest(p, CompileStep(p, pi, depth, canRepeat))

HasInlineIgnoreCase(p) == Len(p) >= 4 /\ SubSeq(p, 1, 4) = "(?i)"
PatternBody(p) == IF HasInlineIgnoreCase(p) THEN SubSeq(p, 5, Len(p)) ELSE p

re_error(p) == ~Compiles(PatternBody(p), 1, 0, FALSE)

\* index after the match starting exactly at t[i], 0 if none
MatchAt(p, t, i, ic) == MatchHere(PatternBody(p), 1, t, i, ic \/ HasInlineIgnoreCase(p))

\* len(re.findall(p, t, flags)): leftmost non-overlapping matches
RECURSIVE CountFrom(_, _, _, _, _)
\* where the search goes on after the match starting at t[s]: after the
\* match, or one character on when the match is empty
AfterMatch(s, e) == IF e = s THEN s + 1 ELSE e
NextFrom(p, t, s, ic) == AfterMatch(s, MatchAt(p, t, s, ic))
CountFrom(p, t, starts, from, ic) ==
    IF \A s \in starts : s < from THEN 0
    ELSE 1 + CountFrom(p, t, starts, NextFrom(p, t, SetMin({s \in starts : s >= from}), ic), ic)

\* the literal character every match of the pattern body starts with, "" if
\* the body does not start with a literal that must occur
FirstLiteral(body) ==
    IF Len(body) = 0 \/ Ch(body, 1) \in {"\\", "[", ".", "(", ")", "$", "^"} THEN ""
    ELSE IF Len(body) >= 2 /\ Ch(body, 2) \in {"*", "?"} THEN ""
    ELSE Ch(body, 1)

\* the positions of t where a match of p starts
MatchStarts(p, t, ic) ==
    LET body == PatternBody(p)
        flag == ic \/ HasInlineIgnoreCase(p)
        first == FirstLiteral(body)
    IN IF first = ""
       THEN {i \in 1..(Len(t) + 1) : MatchHere(body, 1, t, i, flag) # 0}
       ELSE {i \in 1..Len(t) : CharEq(first, Ch(t, i), flag) /\ MatchHere(body, 1, t, i, flag) # 0}

re_findall_len(p, t, ic) == CountFrom(p, t, MatchStarts(p, t, ic), 1, ic)

\* re.search(p, t, flags) is not None
re_search(p, t, ic) == MatchStarts(p, t, ic) # {}


(***************************************************************************)
(* Chunks: langchain Documents, a text with a metadata dict.  Numeric     *)
(* metadata values are in thousandths.                                     *)
(***************************************************************************)
\* dict.get(key, default)
Get(d, key, default) == IF key \in DOMAIN d THEN d[key] ELSE default

\* number of parts of s.split(",") that are not blank after strip()
RECURSIVE CountNonBlankParts(_, _, _)
CountNonBlankParts(s, i, seenText) ==
    IF i > Len(s) THEN (IF seenText THEN 1 ELSE 0)
    ELSE IF Ch(s, i) = "," THEN (IF seenText THEN 1 ELSE 0) + CountNonBlankParts(s, i + 1, FALSE)
    ELSE CountNonBlankParts(s, i + 1, seenText \/ ~IsSpace(Ch(s, i)))

(***************************************************************************)
(* RamitEnhancedRetriever (ramit_retriever.py); the same query            *)
(* classification and reranking is in ConfigurableEnhancedRetriever.      *)
(***************************************************************************)
\* _initialize_ramit_keywords: category -> keywords, in dict order
ramit_keywords == <<
    [category |-> "first_sale",
     keywords |-> <<"authentic selling", "sales call", "first client", "first sale",
                    "closing", "objection handling", "sales process">>],
    [category |-> "customer_research",
     keywords |-> <<"customer research", "mind reading", "customer interviews",
                    "customer needs", "dream outcome", "biggest challenge">>],
    [category |-> "pricing",
     keywords |-> <<"pricing", "rates", "charge", "money", "value", "investment">>],
    [category |-> "offers",
     keywords |-> <<"offer", "irresistible", "positioning", "guarantee", "bonuses">>],
    [category |-> "frameworks",
     keywords |-> <<"framework", "system", "process", "step by step", "methodology">>],
    [category |-> "contrarian",
     keywords |-> <<"wrong", "myth", "conventional wisdom", "different", "opposite">>],
    [category |-> "testing",
     keywords |-> <<"test", "validate", "experiment", "try", "iterate">>] >>

\* _initialize_query_type_priorities: intent -> (label -> priority, thousandths)
query_type_priorities ==
    [foundational |->
        [structured_lesson |-> 1000, systematic_instruction |-> 1000,
         definitive_framework |-> 1000, live_qa |-> 400,
         situational_advice |-> 300, off_the_cuff |-> 200],
     specific_problems |->
        [live_qa |-> 1000, situational_advice |-> 1000, troubleshooting |-> 1000,
         structured_lesson |-> 600, systematic_instruction |-> 500,
         definitive_framework |-> 700],
     examples |->
        [student_teardown |-> 1000, case_study |-> 1000, example_application |-> 1000,
         behind_scenes |-> 800, business_makeover |-> 800, structured_lesson |-> 400],
     systematic |->
        [structured_lesson |-> 1000, systematic_instruction |-> 1000,
         definitive_framework |-> 1000, suggested_approach |-> 800,
         live_qa |-> 300, off_the_cuff |-> 200]]

\* _classify_query: the categories with a keyword in the lower-cased query, in dict order
RECURSIVE matching_categories(_, _, _)
matching_categories(keywords, i, query_lower) ==
    IF i > Len(keywords) THEN <<>>
    ELSE (IF AnyIn(keywords[i].keywords, query_lower) THEN <<keywords[i].category>> ELSE <<>>)
         \o matching_categories(keywords, i + 1, query_lower)

\* a plausible slip: all() where the code has any()
_classify_query_all_keywords(query) ==
    LET hit(i) == \A j \in 1..Len(ramit_keywords[i].keywords) :
                      Contains(lower(query), ramit_keywords[i].keywords[j])
        RECURSIVE from(_)
        from(i) == IF i > Len(ramit_keywords) THEN <<>>
                   ELSE (IF hit(i) THEN <<ramit_keywords[i].category>> ELSE <<>>) \o from(i + 1)
    IN from(1)

_classify_query(query) == matching_categories(ramit_keywords, 1, lower(query))

foundational_indicators ==
    <<"how do i", "what is the", "explain", "framework for", "system for",
      "process for", "steps to", "guide to", "introduction to", "basics of">>
problem_indicators ==
    <<"problem", "issue", "stuck", "struggling", "not working", "failing",
      "what should i do", "help with", "fix", "solve", "troubleshoot">>
example_indicators ==
    <<"example", "case study", "show me", "real world", "success story",
      "student story", "how did", "what happened", "results">>
systematic_indicators ==
    <<"systematic", "methodology", "complete", "comprehensive", "step by step",
      "exact process", "blueprint", "template", "checklist">>

\* a plausible slip: the problem list is tested before the foundational list
_classify_query_intent_problems_first(query) ==
    LET query_lower == lower(query)
    IN IF AnyIn(problem_indicators, query_lower) THEN "specific_problems"
       ELSE IF AnyIn(foundational_indicators, query_lower) THEN "foundational"
       ELSE IF AnyIn(example_indicators, query_lower) THEN "examples"
       ELSE IF AnyIn(systematic_indicators, query_lower) THEN "systematic"
       ELSE "foundational"

_classify_query_intent(query) ==
    LET query_lower == lower(query)
    IN IF AnyIn(foundational_indicators, query_lower) THEN "foundational"
       ELSE IF AnyIn(problem_indicators, query_lower) THEN "specific_problems"
       ELSE IF AnyIn(example_indicators, query_lower) THEN "examples"
       ELSE IF AnyIn(systematic_indicators, query_lower) THEN "systematic"
       ELSE "foundational"

\* priorities.get(label, 0.5) with priorities = query_type_priorities.get(intent, {})
priority(query_intent, label) ==
    LET priorities == IF query_intent \in DOMAIN query_type_priorities
                      THEN query_type_priorities[query_intent] ELSE [none |-> 0]
    IN Get(priorities, label, 500)

\* the bonus of one query category (the if/elif chain of the loop body), in 1/100000
category_boost(category, metadata) ==
    LET frameworks == Get(metadata, "ramit_frameworks", "")
        tactical_density == Get(metadata, "tactical_density", 0)
    IN IF category = "first_sale" /\ Contains(frameworks, "authentic_selling") THEN 50000
       ELSE IF category = "customer_research" /\ Contains(frameworks, "customer_research") THEN 50000
       ELSE IF category = "offers" /\ Contains(frameworks, "winning_offer") THEN 50000
       ELSE IF category = "contrarian" THEN Get(metadata, "contrarian_density", 0) * 50
       ELSE IF category = "frameworks" THEN Get(metadata, "framework_density", 0) * 50
       ELSE IF category = "testing" /\ tactical_density > 300 THEN tactical_density * 30
       ELSE 0

RECURSIVE categories_boost(_, _, _)
categories_boost(query_categories, i, metadata) ==
    IF i > Len(query_categories) THEN 0
    ELSE category_boost(query_categories[i], metadata)
         + categories_boost(query_categories, i + 1, metadata)

\* a plausible slip: the source-type lookup uses the teaching context
_calculate_ramit_relevance_score_wrong_key(doc, query_categories, query_intent) ==
    LET metadata == doc.metadata
        signatures == Get(metadata, "ramit_signatures", "")
    IN (IF Get(metadata, "ramit_primary_type", "general") # "general" THEN 30000 ELSE 0)
       + priority(query_intent, Get(metadata, "teaching_context", "unknown")) * 40
       + priority(query_intent, Get(metadata, "teaching_context", "unknown")) * 30
       + priority(query_intent, Get(metadata, "confidence_level", "unknown")) * 20
       + Get(metadata, "authority_score", 500) * 30
       + Get(metadata, "classification_confidence", 500) * 10
       + categories_boost(query_categories, 1, metadata)
       + Get(metadata, "ramit_contrarian_score", 0) * 15
       + Get(metadata, "ramit_tactical_score", 0) * 15
       + Get(metadata, "ramit_framework_score", 0) * 15
       + Get(metadata, "ramit_case_study_score", 0) * 10
       + Min2(CountNonBlankParts(signatures, 1, FALSE) * 10000, 30000)

\* _calculate_ramit_relevance_score, in 1/100000
_calculate_ramit_relevance_score(doc, query_categories, query_intent) ==
    LET metadata == doc.metadata
        signatures == Get(metadata, "ramit_signatures", "")
    IN (IF Get(metadata, "ramit_primary_type", "general") # "general" THEN 30000 ELSE 0)
       + priority(query_intent, Get(metadata, "document_source_type", "unknown")) * 40
       + priority(query_intent, Get(metadata, "teaching_context", "unknown")) * 30
       + priority(query_intent, Get(metadata, "confidence_level", "unknown")) * 20
       + Get(metadata, "authority_score", 500) * 30
       + Get(metadata, "classification_confidence", 500) * 10
       + categories_boost(query_categories, 1, metadata)
       + Get(metadata, "ramit_contrarian_score", 0) * 15
       + Get(metadata, "ramit_tactical_score", 0) * 15
       + Get(metadata, "ramit_framework_score", 0) * 15
       + Get(metadata, "ramit_case_study_score", 0) * 10
       + Min2(CountNonBlankParts(signatures, 1, FALSE) * 10000, 30000)

\* vector_store.similarity_search(query, k): the first k chunks of the engine's ranking
similarity_search(ranking, k) == SubSeq(ranking, 1, Min2(k, Len(ranking)))

\* the (doc, score) list built by the scoring loop
scored(initial_results, query_categories, query_intent) ==
    [i \in 1..Len(initial_results) |->
        [doc |-> initial_results[i],
         score |-> _calculate_ramit_relevance_score(initial_results[i], query_categories, query_intent)]]

\* a plausible slip: a sort that puts a later element before its equals
RECURSIVE sort_reverse_unstable(_)
sort_reverse_unstable(scored_results) ==
    IF Len(scored_results) <= 1 THEN scored_results
    ELSE LET n == Len(scored_results)
             x == scored_results[n]
             rest == sort_reverse_unstable(SubSeq(scored_results, 1, n - 1))
             before == Cardinality({j \in 1..Len(rest) : rest[j].score > x.score})
         IN SubSeq(rest, 1, before) \o <<x>> \o SubSeq(rest, before + 1, Len(rest))

\* scored_results.sort(key=lambda x: x[1], reverse=True): Python's sort is stable,
\* also with reverse=True
RECURSIVE sort_reverse(_)
sort_reverse(scored_results) ==
    IF Len(scored_results) <= 1 THEN scored_results
    ELSE LET n == Len(scored_results)
             x == scored_results[n]
             rest == sort_reverse(SubSeq(scored_results, 1, n - 1))
             before == Cardinality({j \in 1..Len(rest) : rest[j].score >= x.score})
         IN SubSeq(rest, 1, before) \o <<x>> \o SubSeq(rest, before + 1, Len(rest))

\* k = 5 in _get_relevant_documents
k == 5

\* a plausible slip: the slice keeps one element too many
top_docs_off_by_one(scored_results) ==
    [i \in 1..Min2(k + 1, Len(scored_results)) |-> scored_results[i].doc]

\* [doc for doc, score in scored_results[:k]]
top_docs(scored_results) ==
    [i \in 1..Min2(k, Len(scored_results)) |-> scored_results[i].doc]

\* _get_relevant_documents up to the sort: the sorted (doc, score) list
rerank(ranking, query) ==
    LET initial_results == similarity_search(ranking, k * 2)
    IN sort_reverse(scored(initial_results, _classify_query(query), _classify_query_intent(query)))

\* _get_relevant_documents: the sorted list it builds and the list it returns
_get_relevant_documents(ranking, query) ==
    LET sorted == rerank(ranking, query)
    IN [scored_results |-> sorted, returned |-> top_docs(sorted)]

\* RamitEnhancedRetriever.__init__: the fields of the retriever
RamitEnhancedRetriever ==
    [ramit_keywords |-> ramit_keywords, query_type_priorities |-> query_type_priorities]


(***************************************************************************)
(* Document classification (document_classifier.py and                    *)
(* configurable_document_classifier.py).  A registry is a dict kept in    *)
(* insertion order: a sequence of [category, patterns].  A scores dict is *)
(* a sequence of [key, value] in insertion order, its values doubles.     *)
(***************************************************************************)
\* DocumentClassifier._initialize_source_type_patterns
source_type_patterns == <<
    [category |-> "structured_lesson",
     patterns |-> <<
        "(?i)lesson\\s+\\d+", "(?i)module\\s+\\d+", "(?i)chapter\\s+\\d+",
        "(?i)the\\s+(.+?)\\s+framework", "(?i)anatomy\\s+of", "(?i)step\\s+by\\s+step",
        "(?i)here's\\s+the\\s+exact\\s+system", "(?i)components?\\s+of",
        "(?i)blueprint\\s+for", "(?i)complete\\s+guide", "(?i)systematic\\s+approach",
        "(?i)methodology", "(?i)process\\s+overview" >>],
    [category |-> "live_qa",
     patterns |-> <<
        "(?i)q\\s*&\\s*a", "(?i)question\\s+and\\s+answer", "(?i)live\\s+session",
        "(?i)office\\s+hours", "(?i)that's\\s+a\\s+great\\s+question",
        "(?i)someone\\s+asked", "(?i)participant\\s+question", "(?i)student\\s+question",
        "(?i)chat\\s+question", "(?i)ramit:\\s*", "(?i)student:\\s*",
        "(?i)audience\\s+member", "(?i)from\\s+the\\s+chat", "(?i)good\\s+question" >>],
    [category |-> "student_teardown",
     patterns |-> <<
        "(?i)student\\s+teardown", "(?i)teardown\\s+session", "(?i)student\\s+spotlight",
        "(?i)before\\s+and\\s+after", "(?i)student\\s+transformation",
        "(?i)real\\s+student\\s+example", "(?i)case\\s+study:\\s*[A-Z]",
        "(?i)let\\s+me\\s+show\\s+you\\s+what\\s+[A-Z]\\w+\\s+did", "(?i)student\\s+story",
        "(?i)success\\s+story", "(?i)transformation\\s+story",
        "(?i)one\\s+of\\s+our\\s+students", "(?i)worked\\s+with\\s+a\\s+student" >>],
    [category |-> "behind_scenes",
     patterns |-> <<
        "(?i)behind\\s+the\\s+scenes", "(?i)bts\\s+", "(?i)exclusive\\s+content",
        "(?i)bonus\\s+material", "(?i)deep\\s+dive", "(?i)advanced\\s+training",
        "(?i)insider\\s+perspective", "(?i)what\\s+we\\s+don't\\s+talk\\s+about",
        "(?i)the\\s+real\\s+story", "(?i)truth\\s+about", "(?i)rarely\\s+discussed",
        "(?i)confidential" >>],
    [category |-> "business_makeover",
     patterns |-> <<
        "(?i)business\\s+makeover", "(?i)makeover\\s+session", "(?i)business\\s+audit",
        "(?i)diagnostic\\s+session", "(?i)let's\\s+fix\\s+your\\s+business",
        "(?i)business\\s+review", "(?i)what's\\s+wrong\\s+with",
        "(?i)problems?\\s+with\\s+your\\s+business", "(?i)business\\s+diagnosis",
        "(?i)transformation\\s+session" >>],
    [category |-> "case_study",
     patterns |-> <<
        "(?i)case\\s+study", "(?i)real\\s+example", "(?i)client\\s+example",
        "(?i)actual\\s+results", "(?i)results\\s+breakdown",
        "(?i)how\\s+[A-Z]\\w+\\s+made", "(?i)inside\\s+look\\s+at",
        "(?i)detailed\\s+analysis", "(?i)step\\s+by\\s+step\\s+walkthrough" >>] >>

\* DocumentClassifier._initialize_teaching_context_patterns
teaching_context_patterns == <<
    [category |-> "systematic_instruction",
     patterns |-> <<
        "(?i)here's\\s+the\\s+exact\\s+system", "(?i)framework\\s+for",
        "(?i)step\\s+1\\s*:", "(?i)step\\s+2\\s*:", "(?i)first,?\\s+you\\s+need\\s+to",
        "(?i)second,?\\s+you\\s+need\\s+to", "(?i)process\\s+is\\s+simple",
        "(?i)here's\\s+how\\s+it\\s+works", "(?i)methodology\\s+is",
        "(?i)systematic\\s+approach", "(?i)blueprint\\s+for", "(?i)formula\\s+for",
        "(?i)template\\s+for" >>],
    [category |-> "situational_advice",
     patterns |-> <<
        "(?i)depends\\s+on\\s+your\\s+situation", "(?i)in\\s+your\\s+case",
        "(?i)for\\s+your\\s+specific\\s+situation", "(?i)it\\s+depends",
        "(?i)that's\\s+a\\s+great\\s+question", "(?i)here's\\s+what\\s+I\\s+would\\s+do",
        "(?i)my\\s+recommendation\\s+would\\s+be", "(?i)in\\s+this\\s+scenario",
        "(?i)contextual\\s+advice", "(?i)situational\\s+guidance",
        "(?i)case\\s+by\\s+case", "(?i)individual\\s+circumstances" >>],
    [category |-> "troubleshooting",
     patterns |-> <<
        "(?i)what\\s+if\\s+", "(?i)common\\s+mistake", "(?i)problem\\s+is",
        "(?i)issue\\s+you\\s+might\\s+face", "(?i)here's\\s+what\\s+to\\s+do\\s+when",
        "(?i)if\\s+you're\\s+struggling", "(?i)solution\\s+is", "(?i)fix\\s+for",
        "(?i)troubleshooting", "(?i)common\\s+issues", "(?i)problems?\\s+and\\s+solutions",
        "(?i)when\\s+things\\s+go\\s+wrong" >>],
    [category |-> "example_application",
     patterns |-> <<
        "(?i)for\\s+example", "(?i)let\\s+me\\s+show\\s+you",
        "(?i)here's\\s+an\\s+example", "(?i)real\\s+world\\s+example",
        "(?i)practical\\s+application", "(?i)in\\s+practice", "(?i)applied\\s+to",
        "(?i)concrete\\s+example", "(?i)demonstration", "(?i)illustration",
        "(?i)sample\\s+implementation", "(?i)walkthrough" >>],
    [category |-> "diagnostic",
     patterns |-> <<
        "(?i)what's\\s+wrong\\s+with", "(?i)diagnosis\\s+is", "(?i)problem\\s+here\\s+is",
        "(?i)root\\s+cause", "(?i)underlying\\s+issue", "(?i)let's\\s+diagnose",
        "(?i)analysis\\s+shows", "(?i)assessment\\s+reveals",
        "(?i)evaluation\\s+indicates", "(?i)symptoms\\s+of", "(?i)indicators\\s+suggest",
        "(?i)signs\\s+point\\s+to" >>] >>

\* DocumentClassifier._initialize_confidence_indicators
confidence_indicators == <<
    [category |-> "definitive_framework",
     patterns |-> <<
        "(?i)this\\s+is\\s+the\\s+exact", "(?i)here's\\s+the\\s+exact\\s+system",
        "(?i)proven\\s+framework", "(?i)tested\\s+methodology", "(?i)definitive\\s+guide",
        "(?i)guaranteed\\s+approach", "(?i)foolproof\\s+method", "(?i)never\\s+fails",
        "(?i)always\\s+works", "(?i)100%\\s+effective", "(?i)scientifically\\s+proven",
        "(?i)data\\s+shows" >>],
    [category |-> "suggested_approach",
     patterns |-> <<
        "(?i)I\\s+recommend", "(?i)my\\s+suggestion\\s+is", "(?i)best\\s+practice\\s+is",
        "(?i)typically\\s+works\\s+well", "(?i)generally\\s+effective",
        "(?i)usually\\s+successful", "(?i)tends\\s+to\\s+work", "(?i)preferred\\s+method",
        "(?i)standard\\s+approach", "(?i)common\\s+practice", "(?i)most\\s+effective",
        "(?i)better\\s+approach" >>],
    [category |-> "off_the_cuff",
     patterns |-> <<
        "(?i)off\\s+the\\s+top\\s+of\\s+my\\s+head", "(?i)quick\\s+thought",
        "(?i)initial\\s+reaction", "(?i)gut\\s+feeling", "(?i)instinctively",
        "(?i)my\\s+first\\s+thought", "(?i)immediate\\s+response",
        "(?i)without\\s+thinking\\s+too\\s+much", "(?i)spontaneous\\s+idea",
        "(?i)stream\\s+of\\s+consciousness", "(?i)random\\s+thought",
        "(?i)just\\s+occurred\\s+to\\s+me" >>],
    [category |-> "exploratory",
     patterns |-> <<
        "(?i)let's\\s+explore", "(?i)what\\s+if\\s+we", "(?i)maybe\\s+we\\s+could",
        "(?i)potential\\s+approach", "(?i)worth\\s+considering",
        "(?i)interesting\\s+possibility", "(?i)might\\s+be\\s+worth",
        "(?i)could\\s+potentially", "(?i)experimental\\s+approach",
        "(?i)theoretical\\s+framework", "(?i)hypothesis\\s+is", "(?i)preliminary\\s+idea" >>] >>

\* DocumentClassifier._initialize_authority_indicators
authority_indicators == <<
    [category |-> "high_authority",
     patterns |-> <<
        "(?i)proven\\s+framework", "(?i)tested\\s+approach", "(?i)data\\s+shows",
        "(?i)research\\s+indicates", "(?i)results\\s+prove", "(?i)evidence\\s+suggests",
        "(?i)study\\s+found", "(?i)analysis\\s+reveals", "(?i)metrics\\s+show",
        "(?i)numbers\\s+demonstrate", "(?i)scientific\\s+method",
        "(?i)systematically\\s+tested" >>],
    [category |-> "medium_authority",
     patterns |-> <<
        "(?i)best\\s+practice", "(?i)recommended\\s+approach",
        "(?i)typically\\s+effective", "(?i)generally\\s+works", "(?i)standard\\s+method",
        "(?i)common\\s+practice", "(?i)industry\\s+standard", "(?i)widely\\s+accepted",
        "(?i)professional\\s+opinion", "(?i)expert\\s+advice",
        "(?i)experienced\\s+perspective", "(?i)time\\s+tested" >>],
    [category |-> "low_authority",
     patterns |-> <<
        "(?i)personal\\s+opinion", "(?i)my\\s+take\\s+on", "(?i)I\\s+think",
        "(?i)I\\s+believe", "(?i)in\\s+my\\s+experience", "(?i)gut\\s+feeling",
        "(?i)instinct\\s+tells\\s+me", "(?i)speculation", "(?i)hypothesis",
        "(?i)theory\\s+is", "(?i)might\\s+be", "(?i)possibly" >>] >>

\* DocumentClassifier._initialize_content_quality_patterns
content_quality_patterns == <<
    [category |-> "framework_density",
     patterns |-> <<
        "(?i)framework", "(?i)system", "(?i)process", "(?i)methodology", "(?i)approach",
        "(?i)blueprint", "(?i)template", "(?i)formula" >>],
    [category |-> "tactical_density",
     patterns |-> <<
        "(?i)step\\s+by\\s+step", "(?i)exact\\s+script", "(?i)word\\s+for\\s+word",
        "(?i)copy\\s+and\\s+paste", "(?i)template", "(?i)checklist", "(?i)action\\s+items",
        "(?i)implementation" >>],
    [category |-> "case_study_density",
     patterns |-> <<
        "(?i)case\\s+study", "(?i)real\\s+example", "(?i)student\\s+story",
        "(?i)success\\s+story", "(?i)transformation", "(?i)before\\s+and\\s+after",
        "(?i)results", "(?i)outcome" >>],
    [category |-> "contrarian_density",
     patterns |-> <<
        "(?i)here's\\s+where\\s+most\\s+people\\s+get\\s+this\\s+wrong",
        "(?i)conventional\\s+wisdom\\s+says", "(?i)everyone\\s+else\\s+tells\\s+you",
        "(?i)opposite\\s+of\\s+what", "(?i)myth\\s+is", "(?i)truth\\s+is",
        "(?i)reality\\s+is", "(?i)different\\s+approach" >>] >>


\* Category scores are Python floats (IEEE-754 doubles).  A double near k/10 is
\* the integer k * FloatUnit + e, where e is its distance from k/10 in units of
\* 1/(10 * 2^60); doubles below 16 are whole numbers of these units, and the
\* integers are ordered as the doubles are.
FloatUnit == 100000
float_tenths(x) == (x + FloatUnit \div 2) \div FloatUnit
float_error(x) == x - float_tenths(x) * FloatUnit

\* 2^n modulo 20, for n >= 2
pow2mod20(n) == CASE n % 4 = 2 -> 4 [] n % 4 = 3 -> 8 [] n % 4 = 0 -> 16 [] OTHER -> 12

\* p with 10 * 2^p units between neighbouring doubles around k/10 + e units
float_spacing_exponent(tenths, e) ==
    LET below(b) == tenths < b \/ (tenths = b /\ e < 0)
    IN IF tenths <= 1 THEN 4
       ELSE IF tenths <= 2 THEN 5
       ELSE IF below(5) THEN 6
       ELSE IF below(10) THEN 7
       ELSE IF below(20) THEN 8
       ELSE IF below(40) THEN 9
       ELSE IF below(80) THEN 10
       ELSE 11

\* rounding of the real number tenths/10 + e units with spacing g and remainder
\* r2 modulo 2g: to the nearest double, a tie to the even one
round_with(tenths, e, g, r2) ==
    IF 2 * (r2 % g) < g \/ (2 * (r2 % g) = g /\ r2 < g)
    THEN tenths * FloatUnit + e - (r2 % g)
    ELSE tenths * FloatUnit + e - (r2 % g) + g

round_at(tenths, e, p) ==
    round_with(tenths, e, 10 * 2^p,
               (2^p * (((tenths % 20) * pow2mod20(60 - p)) % 20) + e) % (20 * 2^p))

\* the double nearest to the real number tenths/10 + e units
round_to_double(tenths, e) ==
    IF tenths = 0 THEN 0 ELSE round_at(tenths, e, float_spacing_exponent(tenths, e))

\* the float literal with the decimal value tenths/10 (0.3 is float_literal(3))
float_literal(tenths) == round_to_double(tenths, 0)

\* n * 0.1: the literal 0.1 is 64 units above 1/10, the product is rounded
times_tenth(n) == round_to_double(n, 64 * n)

\* a + b on floats: the exact sum, rounded
float_add(a, b) ==
    round_to_double(float_tenths(a) + float_tenths(b), float_error(a) + float_error(b))

\* n * 0.6 and n * 0.2: the literal 0.6 is 256 units below 6/10 and the literal
\* 0.2 is 128 units above 2/10; n * 1.0 is the whole number n
times_six_tenths(n) == round_to_double(6 * n, -256 * n)
times_two_tenths(n) == round_to_double(2 * n, 128 * n)
times_one(n) == 10 * n * FloatUnit

\* 2^b modulo m, for 52 <= b <= 55 and m <= 2000
pow2mod(b, m) ==
    LET p13 == 8192 % m
        p26 == (p13 * p13) % m
        p52 == (p26 * p26) % m
    IN (p52 * 2^(b - 52)) % m

\* b with 2^-b between neighbouring doubles around tenths/(10 * total) + e of the
\* units 1/(10 * total * 2^60), a real number from 1/8 up to 1
quotient_spacing_exponent(tenths, e, total) ==
    LET below(n) == n * tenths < 10 * total \/ (n * tenths = 10 * total /\ e < 0)
    IN IF below(4) THEN 55 ELSE IF below(2) THEN 54 ELSE IF below(1) THEN 53 ELSE 52

\* a / total on floats, total a positive whole number: the double nearest to the
\* exact quotient, a tie to the even one, as the fraction num/(10 * den) and the
\* double's distance from it in units of 1/(10 * den * 2^60)
float_divide_at(tenths, e, total, b) ==
    LET g == 10 * total * 2^(60 - b)
        r2 == (2^(60 - b) * (((tenths % (20 * total)) * pow2mod(b, 20 * total)) % (20 * total))
               + e) % (2 * g)
    IN [num |-> tenths, den |-> total,
        error |-> IF 2 * (r2 % g) < g \/ (2 * (r2 % g) = g /\ r2 < g) THEN e - (r2 % g)
                  ELSE e - (r2 % g) + g]

float_divide(a, total) ==
    float_divide_at(float_tenths(a), float_error(a), total,
                    quotient_spacing_exponent(float_tenths(a), float_error(a), total))

\* scores[key] = scores.get(key, 0) + weight
add_score(scores, key, weight) ==
    IF \E i \in DOMAIN scores : scores[i].key = key
    THEN [i \in DOMAIN scores |->
            IF scores[i].key = key THEN [scores[i] EXCEPT !.value = float_add(@, weight)]
            ELSE scores[i]]
    ELSE Append(scores, [key |-> key, value |-> weight])

\* a plausible slip: the last key of maximal value
max_score_key_last(scores) ==
    scores[CHOOSE i \in DOMAIN scores :
              /\ \A j \in DOMAIN scores : scores[j].value <= scores[i].value
              /\ \A j \in DOMAIN scores : scores[j].value = scores[i].value => j <= i].key

\* max(scores, key=scores.get): the first key, in insertion order, of maximal value
max_score_key(scores) ==
    scores[SetMin({i \in DOMAIN scores :
                      \A j \in DOMAIN scores : scores[j].value <= scores[i].value})].key

\* for pattern in patterns: matches = re.findall(pattern, content[, re.IGNORECASE]);
\* if matches: scores[category] += len(matches) * 0.1; evidence.append(...).
\* With catch the loop is inside try/except re.error and skips the pattern;
\* without it the error propagates (raised).
\* what the loop finds for each pattern, as pairs <<index, count>>: the count is
\* len(re.findall(pattern, content[, re.IGNORECASE])), or -1 for a pattern re
\* cannot compile
pattern_matches(patterns, content, ignorecase) ==
    {<<j, IF re_error(patterns[j]) THEN -1
          ELSE re_findall_len(patterns[j], content, ignorecase)>> : j \in DOMAIN patterns}

\* the loop from pattern i on: the patterns without a match, and the ones in
\* error that are caught, leave acc as it is
RECURSIVE score_found(_, _, _, _, _, _)
score_next(found, patterns, next, category, catch, acc) ==
    IF next[2] = -1 THEN [acc EXCEPT !.raised = TRUE]
    ELSE score_found(found, patterns, next[1] + 1, category, catch,
            [acc EXCEPT !.scores = add_score(@, category, times_tenth(next[2])),
                        !.evidence = Append(@, <<"Found matches", next[2], category,
                                                 patterns[next[1]]>>)])
score_found(found, patterns, i, category, catch, acc) ==
    LET acting == {r \in found : r[1] >= i /\ (r[2] > 0 \/ (r[2] = -1 /\ ~catch))}
    IN IF acc.raised \/ acting = {} THEN acc
       ELSE score_next(found, patterns,
                       CHOOSE r \in acting : \A q \in acting : r[1] <= q[1],
                       category, catch, acc)

score_patterns(patterns, i, category, content, ignorecase, catch, acc) ==
    score_found(pattern_matches(patterns, content, ignorecase), patterns, i, category,
                catch, acc)

\* for category, patterns in registry.items(): the loop above
RECURSIVE score_registry(_, _, _, _, _, _)
score_registry(registry, c, content, ignorecase, catch, acc) ==
    IF c > Len(registry) \/ acc.raised THEN acc
    ELSE score_registry(registry, c + 1, content, ignorecase, catch,
            score_patterns(registry[c].patterns, 1, registry[c].category, content,
                           ignorecase, catch, acc))

\* best_match with the first category of the registry as the fallback label
best_match_general(acc, placeholder) ==
    IF acc.raised THEN [label |-> "raised", evidence |-> <<>>, scores |-> <<>>, raised |-> TRUE]
    ELSE IF Len(acc.scores) > 0
         THEN [label |-> max_score_key(acc.scores), evidence |-> acc.evidence,
               scores |-> acc.scores, raised |-> FALSE]
    ELSE [label |-> "general", evidence |-> <<<<placeholder>>>>,
          scores |-> <<>>, raised |-> FALSE]

\* if scores: return max(scores, key=scores.get), evidence
\* else: return UNKNOWN, [placeholder]
best_match(acc, placeholder) ==
    IF acc.raised THEN [label |-> "raised", evidence |-> <<>>, scores |-> <<>>, raised |-> TRUE]
    ELSE IF Len(acc.scores) > 0
         THEN [label |-> max_score_key(acc.scores), evidence |-> acc.evidence,
               scores |-> acc.scores, raised |-> FALSE]
    ELSE [label |-> "unknown", evidence |-> <<<<placeholder>>>>,
          scores |-> <<>>, raised |-> FALSE]

no_scores == [scores |-> <<>>, evidence |-> <<>>, raised |-> FALSE]

\* DocumentClassifier._classify_source_type: the three filename checks
filename_scores(filename) ==
    LET filename_lower == lower(filename)
        qa == IF Contains(filename_lower, "qa") \/ Contains(filename_lower, "q&a")
              THEN [no_scores EXCEPT
                      !.scores = add_score(@, "live_qa", float_literal(3)),
                      !.evidence = Append(@, <<"Filename contains Q&A indicator", filename>>)]
              ELSE no_scores
        teardown == IF Contains(filename_lower, "teardown") \/ Contains(filename_lower, "student")
                    THEN [qa EXCEPT
                            !.scores = add_score(@, "student_teardown", float_literal(3)),
                            !.evidence = Append(@, <<"Filename contains teardown/student indicator",
                                                     filename>>)]
                    ELSE qa
    IN IF Contains(filename_lower, "behind") \/ Contains(filename_lower, "bts")
       THEN [teardown EXCEPT
               !.scores = add_score(@, "behind_scenes", float_literal(3)),
               !.evidence = Append(@, <<"Filename contains behind scenes indicator", filename>>)]
       ELSE teardown

\* DocumentClassifier._classify_source_type
_classify_source_type(content, filename) ==
    best_match(score_registry(source_type_patterns, 1, content, FALSE, FALSE,
                              filename_scores(filename)),
               "No clear source type patterns found")

\* DocumentClassifier._classify_teaching_context
_classify_teaching_context(content) ==
    best_match(score_registry(teaching_context_patterns, 1, content, FALSE, FALSE, no_scores),
               "No clear teaching context patterns found")

\* DocumentClassifier._classify_confidence_level
_classify_confidence_level(content) ==
    best_match(score_registry(confidence_indicators, 1, content, FALSE, FALSE, no_scores),
               "No clear confidence level patterns found")

\* <level>_authority_count += len(matches), over the patterns of the level that
\* matched: each of them left an evidence entry with its match count
RECURSIVE authority_count(_, _, _)
authority_count(evidence, i, level) ==
    IF i > Len(evidence) THEN 0
    ELSE (IF evidence[i][3] = level THEN evidence[i][2] ELSE 0)
         + authority_count(evidence, i + 1, level)

\* the three counting loops of _calculate_authority_score and its weighted mean,
\* a fraction num / (1000 * den); 0.5 when nothing is counted
authority_of(acc) ==
    LET high_authority_count == authority_count(acc.evidence, 1, "high_authority")
        medium_authority_count == authority_count(acc.evidence, 1, "medium_authority")
        low_authority_count == authority_count(acc.evidence, 1, "low_authority")
        total_indicators == high_authority_count + medium_authority_count + low_authority_count
    IN IF acc.raised THEN [authority_score |-> [num |-> 0, den |-> 1], evidence |-> <<>>,
                           raised |-> TRUE]
       ELSE IF total_indicators = 0
            THEN [authority_score |-> [num |-> 500, den |-> 1],
                  evidence |-> <<<<"No authority indicators found - default medium authority">>>>,
                  raised |-> FALSE]
       ELSE [authority_score |->
                [num |-> high_authority_count * 1000 + medium_authority_count * 600
                         + low_authority_count * 200,
                 den |-> total_indicators],
             evidence |-> acc.evidence, raised |-> FALSE]

\* DocumentClassifier._calculate_authority_score
_calculate_authority_score(content) ==
    authority_of(score_registry(authority_indicators, 1, content, FALSE, FALSE, no_scores))

\* len(content.split()): the number of maximal runs of non-space characters,
\* counted by the positions where one starts
split_len(content) ==
    Cardinality({i \in 1..Len(content) :
                    /\ ~IsSpace(Ch(content, i))
                    /\ (i = 1 \/ IsSpace(Ch(content, i - 1)))})

\* count += len(re.findall(pattern, content[, re.IGNORECASE])) over the patterns of
\* one quality type; a pattern that does not compile adds nothing
RECURSIVE count_matches(_, _, _, _)
count_matches(patterns, i, content, ignorecase) ==
    IF i > Len(patterns) THEN 0
    ELSE (IF re_error(patterns[i]) THEN 0
          ELSE re_findall_len(patterns[i], content, ignorecase))
         + count_matches(patterns, i + 1, content, ignorecase)

\* a plausible slip: the cap at 1.0 is left out
density_uncapped(count, content_length) ==
    IF content_length > 0 THEN (count * 1000000) \div content_length ELSE 0

\* min(1.0, count / content_length * 100 * 10) in thousandths, 0.0 for no words
density(count, content_length) ==
    IF content_length > 0 THEN Min2(1000, (count * 1000000) \div content_length) ELSE 0

\* _assess_content_quality: a dict from quality type to density; without the
\* try/except (catch) a pattern that does not compile raises re.error
assess_quality(registry, content, ignorecase, catch) ==
    LET content_length == split_len(content)
    IN [indicators |->
          [quality_type \in {registry[i].category : i \in DOMAIN registry} |->
             LET i == CHOOSE j \in DOMAIN registry : registry[j].category = quality_type
             IN density(count_matches(registry[i].patterns, 1, content, ignorecase),
                        content_length)],
        raised |-> ~catch /\ \E i \in DOMAIN registry :
                      \E j \in DOMAIN registry[i].patterns : re_error(registry[i].patterns[j])]

\* DocumentClassifier._assess_content_quality
_assess_content_quality(content) == assess_quality(content_quality_patterns, content, FALSE, FALSE)

\* a plausible slip: <= where the code has <
_calculate_classification_confidence_inclusive(total_evidence) ==
    IF total_evidence = 0 THEN 100
    ELSE IF total_evidence <= 5 THEN 300
    ELSE IF total_evidence <= 10 THEN 600
    ELSE IF total_evidence <= 20 THEN 800
    ELSE 900

\* _calculate_classification_confidence on the summed lengths of the evidence lists,
\* in thousandths
_calculate_classification_confidence(total_evidence) ==
    IF total_evidence = 0 THEN 100
    ELSE IF total_evidence < 5 THEN 300
    ELSE IF total_evidence < 10 THEN 600
    ELSE IF total_evidence < 20 THEN 800
    ELSE 900

\* the DocumentClassification both classify_document methods build from the four
\* analyses and the quality indicators
DocumentClassification(source, context, confidence, authority, quality) ==
    LET all_evidence == source.evidence \o context.evidence \o confidence.evidence
                        \o authority.evidence
    IN [document_source_type |-> source.label,
        teaching_context |-> context.label,
        confidence_level |-> confidence.label,
        authority_score |-> authority.authority_score,
        classification_confidence |->
            _calculate_classification_confidence(
                Len(source.evidence) + Len(context.evidence) + Len(confidence.evidence)
                + Len(authority.evidence)),
        supporting_evidence |-> all_evidence,
        content_quality_indicators |-> quality.indicators,
        raised |-> source.raised \/ context.raised \/ confidence.raised \/ authority.raised
                   \/ quality.raised]

\* DocumentClassifier.classify_document
classify_document(document) ==
    LET content == lower(document.page_content)
        filename == Get(document.metadata, "filename", "")
    IN DocumentClassification(_classify_source_type(content, filename),
                              _classify_teaching_context(content),
                              _classify_confidence_level(content),
                              _calculate_authority_score(content),
                              _assess_content_quality(content))

(***************************************************************************)
(* ConfigurableDocumentClassifier: the registries come from the expert    *)
(* configuration; a section of it is a sequence of [category, patterns]   *)
(* in file order.                                                          *)
(***************************************************************************)
\* a plausible slip: the registry is the section as configured
initialize_patterns_as_configured(section) == section

\* _initialize_source_type_patterns, _initialize_teaching_context_patterns and
\* _initialize_confidence_indicators: the patterns of every entry, and an
\* "unknown" entry with no patterns unless the section has one
initialize_patterns(section) ==
    LET patterns == [i \in DOMAIN section |->
                        [category |-> section[i].category, patterns |-> section[i].patterns]]
    IN IF \E i \in DOMAIN section : section[i].category = "unknown" THEN patterns
       ELSE Append(patterns, [category |-> "unknown", patterns |-> <<>>])

authority_mapping ==
    [high_authority |-> "high_authority",
     medium_authority |-> "medium_authority",
     low_authority |-> "low_authority",
     definitive_framework |-> "high_authority",
     suggested_approach |-> "medium_authority",
     off_the_cuff |-> "low_authority",
     exploratory |-> "low_authority"]

\* authority_indicators[mapped_category].extend(patterns) over the levels after
\* position i that map to the category
RECURSIVE mapped_patterns(_, _, _)
mapped_patterns(authority_levels, i, mapped_category) ==
    IF i > Len(authority_levels) THEN <<>>
    ELSE (IF Get(authority_mapping, authority_levels[i].category, "medium_authority")
             = mapped_category
          THEN authority_levels[i].patterns ELSE <<>>)
         \o mapped_patterns(authority_levels, i + 1, mapped_category)

_initialize_authority_indicators(authority_levels) ==
    <<[category |-> "high_authority",
       patterns |-> mapped_patterns(authority_levels, 1, "high_authority")],
      [category |-> "medium_authority",
       patterns |-> mapped_patterns(authority_levels, 1, "medium_authority")],
      [category |-> "low_authority",
       patterns |-> mapped_patterns(authority_levels, 1, "low_authority")]>>

\* the fixed search phrases _initialize_content_quality_patterns gives a content type
quality_patterns_of ==
    [framework |->
        [category |-> "framework_density",
         patterns |-> <<"framework", "system", "process", "methodology",
                        "approach", "blueprint", "template", "formula">>],
     tactical |->
        [category |-> "tactical_density",
         patterns |-> <<"step by step", "exact script", "word for word",
                        "copy and paste", "template", "checklist",
                        "action items", "implementation">>],
     case_study |->
        [category |-> "case_study_density",
         patterns |-> <<"case study", "real example", "student story",
                        "success story", "transformation", "before and after",
                        "results", "outcome">>],
     contrarian |->
        [category |-> "contrarian_density",
         patterns |-> <<"here's where most people get this wrong",
                        "conventional wisdom says", "everyone else tells you",
                        "opposite of what", "myth is", "truth is",
                        "reality is", "different approach">>]]

RECURSIVE _initialize_content_quality_patterns(_, _)
_initialize_content_quality_patterns(content_types, i) ==
    IF i > Len(content_types) THEN <<>>
    ELSE (IF content_types[i] \in DOMAIN quality_patterns_of
          THEN <<quality_patterns_of[content_types[i]]>> ELSE <<>>)
         \o _initialize_content_quality_patterns(content_types, i + 1)

\* ConfigurableDocumentClassifier.__init__
ConfigurableDocumentClassifier(config) ==
    [source_type_patterns |-> initialize_patterns(Get(config, "document_types", <<>>)),
     teaching_context_patterns |-> initialize_patterns(Get(config, "teaching_contexts", <<>>)),
     confidence_indicators |-> initialize_patterns(Get(config, "authority_levels", <<>>)),
     authority_indicators |->
        _initialize_authority_indicators(Get(config, "authority_levels", <<>>)),
     content_quality_patterns |->
        _initialize_content_quality_patterns(Get(config, "content_types", <<>>), 1)]

\* re.findall(r'\\w+', pattern.lower()): the raw string is a backslash, a
\* backslash, w, +, so it finds a literal backslash followed by one or more w
pattern_keywords(pattern) ==
    LET pattern_lower == lower(pattern)
    IN {SubSeq(pattern_lower, s, MatchAt("\\\\w+", pattern_lower, s, FALSE) - 1) :
           s \in {i \in 1..Len(pattern_lower) : MatchAt("\\\\w+", pattern_lower, i, FALSE) # 0}}

\* the filename loop of ConfigurableDocumentClassifier._classify_source_type: a
\* source type gets 0.3 once if a keyword of one of its patterns is in the filename
RECURSIVE configurable_filename_scores(_, _, _, _)
configurable_filename_scores(registry, c, filename, acc) ==
    IF c > Len(registry) THEN acc
    ELSE configurable_filename_scores(registry, c + 1, filename,
            IF \E j \in DOMAIN registry[c].patterns :
                  \E keyword \in pattern_keywords(registry[c].patterns[j]) :
                      Contains(lower(filename), keyword)
            THEN [acc EXCEPT
                    !.scores = add_score(@, registry[c].category, float_literal(3)),
                    !.evidence = Append(@, <<"Filename contains indicator",
                                             registry[c].category, filename>>)]
            ELSE acc)

\* ConfigurableDocumentClassifier._classify_source_type
Configurable_classify_source_type(self, content, filename) ==
    best_match(score_registry(self.source_type_patterns, 1, content, TRUE, TRUE,
                  configurable_filename_scores(self.source_type_patterns, 1, filename,
                                               no_scores)),
               "No clear source type patterns found")

\* ConfigurableDocumentClassifier._classify_teaching_context
Configurable_classify_teaching_context(self, content) ==
    best_match(score_registry(self.teaching_context_patterns, 1, content, TRUE, TRUE, no_scores),
               "No clear teaching context patterns found")

\* ConfigurableDocumentClassifier._classify_confidence_level
Configurable_classify_confidence_level(self, content) ==
    best_match(score_registry(self.confidence_indicators, 1, content, TRUE, TRUE, no_scores),
               "No clear confidence level patterns found")

\* a plausible slip: a low authority match weighs 0.1
weighted_authority_score_low_tenth(high_authority_count, medium_authority_count, low_authority_count) ==
    LET total_indicators ==
            high_authority_count + medium_authority_count + low_authority_count
    IN IF total_indicators = 0 THEN [num |-> 5, den |-> 1, error |-> 0]
       ELSE float_divide(float_add(float_add(times_one(high_authority_count),
                                             times_six_tenths(medium_authority_count)),
                                   times_tenth(low_authority_count)),
                         total_indicators)

\* the weighted score of _calculate_authority_score as the float it is:
\* ((high * 1.0) + (medium * 0.6) + (low * 0.2)) / total_indicators, or 0.5
weighted_authority_score(high_authority_count, medium_authority_count, low_authority_count) ==
    LET total_indicators ==
            high_authority_count + medium_authority_count + low_authority_count
    IN IF total_indicators = 0 THEN [num |-> 5, den |-> 1, error |-> 0]
       ELSE float_divide(float_add(float_add(times_one(high_authority_count),
                                             times_six_tenths(medium_authority_count)),
                                   times_two_tenths(low_authority_count)),
                         total_indicators)

\* ConfigurableDocumentClassifier._calculate_authority_score
Configurable_calculate_authority_score(self, content) ==
    authority_of(score_registry(self.authority_indicators, 1, content, TRUE, TRUE, no_scores))

\* ConfigurableDocumentClassifier._assess_content_quality
Configurable_assess_content_quality(self, content) ==
    assess_quality(self.content_quality_patterns, content, TRUE, TRUE)

\* ConfigurableDocumentClassifier.classify_document
Configurable_classify_document(self, document) ==
    LET content == lower(document.page_content)
        filename == Get(document.metadata, "filename", "")
    IN DocumentClassification(Configurable_classify_source_type(self, content, filename),
                              Configurable_classify_teaching_context(self, content),
                              Configurable_classify_confidence_level(self, content),
                              Configurable_calculate_authority_score(self, content),
                              Configurable_assess_content_quality(self, content))


(***************************************************************************)
(* ExpertContentAnalyzer (expert_analyzer.py).  Scores and weights are in *)
(* thousandths.  A set of the analysis is joined in its iteration order,  *)
(* which depends on the string hash seed of the process: order lists the  *)
(* possible members in that order.                                         *)
(***************************************************************************)
ContentType ==
    {"framework", "mindset", "tactical", "contrarian", "case_study", "testing", "story", "numbers"}

\* the phrase_config dicts of every category of signature_phrases, in file order
RECURSIVE phrase_configs(_, _)
phrase_configs(signature_config, i) ==
    IF i > Len(signature_config) THEN <<>>
    ELSE signature_config[i].phrases \o phrase_configs(signature_config, i + 1)

\* ExpertSignature(phrase, content_type, weight) for each phrase_config; one
\* whose content type is not a ContentType is skipped
RECURSIVE signatures_of(_, _)
signatures_of(configs, i) ==
    IF i > Len(configs) THEN <<>>
    ELSE (IF Get(configs[i], "content_type", "framework") \in ContentType
          THEN <<[phrase |-> Get(configs[i], "phrase", ""),
                  content_type |-> Get(configs[i], "content_type", "framework"),
                  weight |-> Get(configs[i], "weight", 500)]>>
          ELSE <<>>)
         \o signatures_of(configs, i + 1)

_initialize_signatures(config) ==
    signatures_of(phrase_configs(Get(config, "signature_phrases", <<>>), 1), 1)

_initialize_frameworks(config) == Get(config, "frameworks", <<>>)

default_contrarian_indicators ==
    <<"most people think", "conventional wisdom", "everyone says", "typical advice",
      "wrong approach", "don't listen to", "opposite of what", "counterintuitive",
      "surprising truth", "myth", "misconception", "big mistake", "dead wrong">>

\* the non-empty phrases of the contrarian_indicators category
RECURSIVE contrarian_phrases(_, _)
contrarian_phrases(configs, i) ==
    IF i > Len(configs) THEN <<>>
    ELSE (IF Get(configs[i], "phrase", "") # "" THEN <<configs[i].phrase>> ELSE <<>>)
         \o contrarian_phrases(configs, i + 1)

_initialize_contrarian_indicators(config) ==
    LET signature_config == Get(config, "signature_phrases", <<>>)
        found == {i \in DOMAIN signature_config :
                     signature_config[i].category = "contrarian_indicators"}
        contrarian_indicators ==
            IF found = {} THEN <<>>
            ELSE contrarian_phrases(signature_config[SetMin(found)].phrases, 1)
    IN IF contrarian_indicators = <<>> THEN default_contrarian_indicators
       ELSE contrarian_indicators

\* the pattern lists of _analyze_content_structure; in expert_analyzer.py the raw
\* strings of the step and number patterns are written with doubled backslashes
step_patterns == <<"step \\\\d+", "\\\\d+\\\\.", "first,", "second,", "third,">>
story_patterns ==
    <<"let me tell you", "here's what happened", "student named", "client story",
      "real example">>
number_patterns == <<"\\\\$[\\\\d,]+", "\\\\d+%", "\\\\d+ times", "\\\\d+ figure">>
testing_patterns == <<"test", "experiment", "try this", "validate">>

\* ExpertContentAnalyzer.__init__, with the step and number patterns its
\* _analyze_content_structure uses
ExpertContentAnalyzer(config) ==
    [config |-> config,
     signatures |-> _initialize_signatures(config),
     frameworks |-> _initialize_frameworks(config),
     contrarian_indicators |-> _initialize_contrarian_indicators(config),
     step_patterns |-> step_patterns,
     number_patterns |-> number_patterns]

\* RamitContentAnalyzer.__init__: the signatures, frameworks and contrarian
\* indicators of ramit_analyzer.py and the step and number patterns of its
\* _analyze_content_structure; the keys it writes start with ramit_
RamitContentAnalyzer ==
    [config |-> [expert_profile |-> [name |-> "ramit"]],
     signatures |-> <<
        [phrase |-> "invisible scripts", content_type |-> "mindset", weight |-> 900],
        [phrase |-> "money dials", content_type |-> "framework", weight |-> 800],
        [phrase |-> "profit playbook", content_type |-> "framework", weight |-> 900],
        [phrase |-> "customer research", content_type |-> "tactical", weight |-> 700],
        [phrase |-> "winning offer", content_type |-> "framework", weight |-> 800],
        [phrase |-> "authentic selling", content_type |-> "framework", weight |-> 800],
        [phrase |-> "business isn't magic. it's math", content_type |-> "numbers", weight |-> 900],
        [phrase |-> "predictable numbers", content_type |-> "numbers", weight |-> 700],
        [phrase |-> "rich life", content_type |-> "mindset", weight |-> 800],
        [phrase |-> "i will teach you to be rich", content_type |-> "mindset", weight |-> 900],
        [phrase |-> "you don't need to be an expert", content_type |-> "contrarian", weight |-> 800],
        [phrase |-> "start before you're ready", content_type |-> "contrarian", weight |-> 800],
        [phrase |-> "stop asking for permission", content_type |-> "mindset", weight |-> 700],
        [phrase |-> "most people are wrong about", content_type |-> "contrarian", weight |-> 800],
        [phrase |-> "conventional wisdom says", content_type |-> "contrarian", weight |-> 700],
        [phrase |-> "test it", content_type |-> "testing", weight |-> 800],
        [phrase |-> "validate", content_type |-> "testing", weight |-> 600],
        [phrase |-> "step by step", content_type |-> "tactical", weight |-> 600],
        [phrase |-> "exact script", content_type |-> "tactical", weight |-> 800],
        [phrase |-> "word for word", content_type |-> "tactical", weight |-> 800],
        [phrase |-> "copy and paste", content_type |-> "tactical", weight |-> 700],
        [phrase |-> "let me tell you about", content_type |-> "case_study", weight |-> 700],
        [phrase |-> "student story", content_type |-> "case_study", weight |-> 900],
        [phrase |-> "behind the scenes", content_type |-> "case_study", weight |-> 800],
        [phrase |-> "teardown", content_type |-> "case_study", weight |-> 900],
        [phrase |-> "makeover", content_type |-> "case_study", weight |-> 900],
        [phrase |-> "dollar", content_type |-> "numbers", weight |-> 600],
        [phrase |-> "conversion", content_type |-> "numbers", weight |-> 800],
        [phrase |-> "figure", content_type |-> "numbers", weight |-> 700],
        [phrase |-> "email list", content_type |-> "tactical", weight |-> 600],
        [phrase |-> "subscribers", content_type |-> "numbers", weight |-> 500]>>,
     frameworks |-> <<
        [name |-> "customer_research",
         keywords |-> <<"customer research call", "mind reading", "what keeps you up at night", "biggest challenge", "dream outcome", "customer interviews">>],
        [name |-> "winning_offer",
         keywords |-> <<"irresistible offer", "anatomy of", "positioning", "guarantee", "bonuses", "scarcity", "urgency", "value proposition">>],
        [name |-> "authentic_selling",
         keywords |-> <<"sales call", "objection handling", "closing", "follow up", "building rapport", "understanding needs", "presentation">>],
        [name |-> "profit_playbook",
         keywords |-> <<"business model", "revenue streams", "pricing strategy", "client acquisition", "systems", "automation">>],
        [name |-> "testing_framework",
         keywords |-> <<"a/b test", "validate", "iterate", "feedback", "metrics", "conversion rate", "optimize", "experiment">>]>>,
     contrarian_indicators |-> default_contrarian_indicators,
     step_patterns |-> <<"step \\d+", "\\d+\\.", "first,", "second,", "third,">>,
     number_patterns |-> <<"\\$[\\d,]+", "\\d+%", "\\d+ times", "\\d+ figure">>]

\* str.replace(old, new) for single characters
RECURSIVE replace(_, _, _)
replace(s, old, new) ==
    IF s = "" THEN ""
    ELSE (IF Ch(s, 1) = old THEN new ELSE Ch(s, 1)) \o replace(Tail(s), old, new)

\* sep.join(xs)
RECURSIVE join(_, _)
join(xs, sep) ==
    IF Len(xs) = 0 THEN ""
    ELSE IF Len(xs) = 1 THEN xs[1]
    ELSE xs[1] \o sep \o join(Tail(xs), sep)

\* ",".join(a set): its members in the iteration order
join_set(members, order) == join(SelectSeq(order, LAMBDA x : x \in members), ",")

\* the analysis dict analyze_content starts from
initial_analysis ==
    [content_types |-> {}, frameworks |-> {}, signatures |-> <<>>,
     contrarian_score |-> 0, tactical_score |-> 0, framework_score |-> 0,
     case_study_score |-> 0, mindset_score |-> 0, testing_score |-> 0,
     numbers_score |-> 0, story_score |-> 0, raised |-> FALSE]

\* analysis[score_key] += weight
add_to_score(analysis, score_key, weight) ==
    IF score_key \in DOMAIN analysis
    THEN [key \in DOMAIN analysis |->
            IF key = score_key THEN analysis[key] + weight ELSE analysis[key]]
    ELSE analysis

\* the next signature whose phrase raises or is found in the content; the
\* signatures between are skipped by the loop without effect
RECURSIVE _analyze_signatures(_, _, _, _)
signature_found(signatures, i, content, analysis) ==
    IF re_error(lower(signatures[i].phrase)) THEN [analysis EXCEPT !.raised = TRUE]
    ELSE _analyze_signatures(signatures, i + 1, content,
            add_to_score(
                [analysis EXCEPT
                   !.signatures = Append(@, signatures[i].phrase),
                   !.content_types = @ \cup {signatures[i].content_type}],
                signatures[i].content_type \o "_score",
                signatures[i].weight))

\* _analyze_signatures: re.search(signature.phrase.lower(), content, re.IGNORECASE)
\* for each signature in turn, with nothing around it that catches re.error
_analyze_signatures(signatures, i, content, analysis) ==
    LET acting == {j \in i..Len(signatures) :
                      \/ re_error(lower(signatures[j].phrase))
                      \/ re_search(lower(signatures[j].phrase), content, TRUE)}
    IN IF acting = {} THEN analysis
       ELSE signature_found(signatures, SetMin(acting), content, analysis)

\* sum(1 for x in xs if x.lower() in content)
count_in(xs, content) == Cardinality({i \in DOMAIN xs : Contains(content, lower(xs[i]))})

\* a plausible slip: one keyword is enough
RECURSIVE _analyze_frameworks_one_keyword(_, _, _, _)
_analyze_frameworks_one_keyword(frameworks, i, content, analysis) ==
    IF i > Len(frameworks) THEN analysis
    ELSE LET matches == count_in(frameworks[i].keywords, content)
         IN _analyze_frameworks_one_keyword(frameworks, i + 1, content,
               IF matches >= 1
               THEN [analysis EXCEPT !.frameworks = @ \cup {frameworks[i].name},
                                     !.framework_score = @ + matches * 200]
               ELSE analysis)

\* _analyze_frameworks
RECURSIVE _analyze_frameworks(_, _, _, _)
_analyze_frameworks(frameworks, i, content, analysis) ==
    IF i > Len(frameworks) THEN analysis
    ELSE LET matches == count_in(frameworks[i].keywords, content)
         IN _analyze_frameworks(frameworks, i + 1, content,
               IF matches >= 2
               THEN [analysis EXCEPT !.frameworks = @ \cup {frameworks[i].name},
                                     !.framework_score = @ + matches * 200]
               ELSE analysis)

\* _analyze_contrarian_content
_analyze_contrarian_content(contrarian_indicators, content, analysis) ==
    LET contrarian_matches == count_in(contrarian_indicators, content)
    IN [analysis EXCEPT
          !.contrarian_score = contrarian_matches * 300,
          !.content_types = IF contrarian_matches > 0 THEN @ \cup {"contrarian"} ELSE @]

\* sum(1 for pattern in patterns if re.search(pattern, content[, re.IGNORECASE]))
count_searches(patterns, content, ignorecase) ==
    Cardinality({i \in DOMAIN patterns : re_search(patterns[i], content, ignorecase)})

\* analysis with the scores and content types _analyze_content_structure adds for
\* the numbers of step, story, number and testing patterns found
add_structure(analysis, steps, stories, number_matches, testing_matches) ==
    [analysis EXCEPT
       !.tactical_score = @ + (IF steps > 0 THEN 500 ELSE 0),
       !.case_study_score = @ + (IF stories > 0 THEN 500 ELSE 0),
       !.story_score = @ + (IF stories > 0 THEN 500 ELSE 0),
       !.numbers_score = @ + (IF number_matches > 0 THEN number_matches * 300 ELSE 0),
       !.testing_score = @ + (IF testing_matches > 1 THEN testing_matches * 200 ELSE 0),
       !.content_types = @ \cup (IF steps > 0 THEN {"tactical"} ELSE {})
                           \cup (IF stories > 0 THEN {"case_study"} ELSE {})
                           \cup (IF number_matches > 0 THEN {"numbers"} ELSE {})
                           \cup (IF testing_matches > 1 THEN {"testing"} ELSE {})]

\* _analyze_content_structure, on the text as written
_analyze_content_structure(self, content, analysis) ==
    add_structure(analysis,
                  count_searches(self.step_patterns, content, TRUE),
                  count_searches(story_patterns, content, TRUE),
                  count_searches(self.number_patterns, content, FALSE),
                  count_searches(testing_patterns, content, TRUE))

\* a plausible slip: a maximal score of exactly 0.5 already names the type
_determine_primary_content_type_inclusive(analysis) ==
    LET scores == <<[key |-> "framework", value |-> analysis.framework_score],
                    [key |-> "tactical", value |-> analysis.tactical_score],
                    [key |-> "contrarian", value |-> analysis.contrarian_score],
                    [key |-> "case_study", value |-> analysis.case_study_score],
                    [key |-> "mindset", value |-> analysis.mindset_score],
                    [key |-> "testing", value |-> analysis.testing_score],
                    [key |-> "numbers", value |-> analysis.numbers_score],
                    [key |-> "story", value |-> analysis.story_score]>>
    IN IF \E i \in DOMAIN scores : scores[i].value >= 500 THEN max_score_key(scores)
       ELSE "general"

\* _determine_primary_content_type: the first of the eight scores, in the order
\* of the scores dict, that is maximal, if it exceeds 0.5
_determine_primary_content_type(analysis) ==
    LET scores == <<[key |-> "framework", value |-> analysis.framework_score],
                    [key |-> "tactical", value |-> analysis.tactical_score],
                    [key |-> "contrarian", value |-> analysis.contrarian_score],
                    [key |-> "case_study", value |-> analysis.case_study_score],
                    [key |-> "mindset", value |-> analysis.mindset_score],
                    [key |-> "testing", value |-> analysis.testing_score],
                    [key |-> "numbers", value |-> analysis.numbers_score],
                    [key |-> "story", value |-> analysis.story_score]>>
    IN IF \E i \in DOMAIN scores : scores[i].value > 500 THEN max_score_key(scores)
       ELSE "general"

\* metadata.copy() updated with the analysis under the expert's prefix; a raise
\* in the analysis leaves the metadata as it was
enhanced_metadata(expert_prefix, analysis, metadata, order) ==
    IF analysis.raised THEN [raised |-> TRUE, metadata |-> metadata]
    ELSE [raised |-> FALSE,
          metadata |->
             ((expert_prefix \o "_primary_type") :> _determine_primary_content_type(analysis))
             @@ ((expert_prefix \o "_content_types") :> join_set(analysis.content_types, order))
             @@ ((expert_prefix \o "_frameworks") :> join_set(analysis.frameworks, order))
             @@ ((expert_prefix \o "_signatures") :> join(analysis.signatures, ","))
             @@ ((expert_prefix \o "_contrarian_score") :> analysis.contrarian_score)
             @@ ((expert_prefix \o "_tactical_score") :> analysis.tactical_score)
             @@ ((expert_prefix \o "_framework_score") :> analysis.framework_score)
             @@ ((expert_prefix \o "_case_study_score") :> analysis.case_study_score)
             @@ ((expert_prefix \o "_mindset_score") :> analysis.mindset_score)
             @@ ((expert_prefix \o "_testing_score") :> analysis.testing_score)
             @@ ((expert_prefix \o "_numbers_score") :> analysis.numbers_score)
             @@ ((expert_prefix \o "_story_score") :> analysis.story_score)
             @@ metadata]

\* the three analyses that follow _analyze_signatures; they are not reached when
\* it raised
analyze_after_signatures(self, content, signed) ==
    IF signed.raised THEN signed
    ELSE _analyze_content_structure(self, content,
            _analyze_contrarian_content(self.contrarian_indicators, lower(content),
                _analyze_frameworks(self.frameworks, 1, lower(content), signed)))

\* analyze_content: the metadata with the analysis keys added, or raised
analyze_content(self, content, metadata, order) ==
    enhanced_metadata(
        replace(lower(Get(Get(self.config, "expert_profile", [none |-> ""]), "name", "expert")),
                " ", "_"),
        analyze_after_signatures(self, content,
            _analyze_signatures(self.signatures, 1, lower(content), initial_analysis)),
        metadata, order)

\* doc.metadata = enhanced_metadata for document i, then the documents after it:
\* the assignment is in place, so the documents before a raise keep their
\* enhanced metadata
RECURSIVE enhance_from(_, _, _, _)
assign_metadata(analyzer, documents, i, order, enhanced) ==
    IF enhanced.raised THEN [raised |-> TRUE, documents |-> documents]
    ELSE enhance_from(analyzer, [documents EXCEPT ![i].metadata = enhanced.metadata],
                      i + 1, order)

\* enhance_document_metadata from document i on
enhance_from(analyzer, documents, i, order) ==
    IF i > Len(documents) THEN [raised |-> FALSE, documents |-> documents]
    ELSE assign_metadata(analyzer, documents, i, order,
                         analyze_content(analyzer, documents[i].page_content,
                                         documents[i].metadata, order))

\* enhance_document_metadata(documents, config_path)
enhance_document_metadata(documents, config, order) ==
    enhance_from(ExpertContentAnalyzer(config), documents, 1, order)

\* ramit_analyzer.enhance_document_metadata(documents)
ramit_enhance_document_metadata(documents, order) ==
    enhance_from(RamitContentAnalyzer, documents, 1, order)

\* split_documents after chunking: the chunks enhanced, or as they are when
\* enhance_document_metadata raised (the exception is printed as a warning)
split_documents_enhance(chunks, enhance_with_expert_analysis, config, order) ==
    IF enhance_with_expert_analysis
    THEN enhance_document_metadata(chunks, config, order).documents
    ELSE chunks


(***************************************************************************)
(* ConfigurableEnhancedRetriever (configurable_enhanced_retriever.py).    *)
(* Its query-intent lists are those of RamitEnhancedRetriever; keywords   *)
(* and priorities come from the expert configuration.                     *)
(***************************************************************************)
\* load_expert_config: the configuration the analyzer loaded
load_expert_config(config) == ExpertContentAnalyzer(config).config

\* the entries of a configuration section as [category, keywords], in file order
RECURSIVE keyword_entries(_, _, _)
keyword_entries(section, i, prefix) ==
    IF i > Len(section) THEN <<>>
    ELSE <<[category |-> prefix \o section[i].name, keywords |-> section[i].keywords]>>
         \o keyword_entries(section, i + 1, prefix)

\* _initialize_expert_keywords: the intents of query_intent_classification, then
\* framework_<name> for each framework
_initialize_expert_keywords(config) ==
    keyword_entries(Get(config, "query_intent_classification", <<>>), 1, "")
    \o keyword_entries(Get(config, "frameworks", <<>>), 1, "framework_")

\* the priorities _initialize_query_type_priorities falls back to, in thousandths
default_retrieval_priorities ==
    [foundational |->
        [structured_lesson |-> 1000, systematic_instruction |-> 1000,
         high_authority |-> 1000, live_qa |-> 400,
         situational_advice |-> 300, low_authority |-> 200],
     specific_problems |->
        [live_qa |-> 1000, situational_advice |-> 1000, troubleshooting |-> 1000,
         structured_lesson |-> 600, systematic_instruction |-> 500,
         high_authority |-> 700],
     examples |->
        [student_teardown |-> 1000, case_study |-> 1000, example_application |-> 1000,
         behind_scenes |-> 800, business_makeover |-> 800, structured_lesson |-> 400],
     systematic |->
        [structured_lesson |-> 1000, systematic_instruction |-> 1000,
         high_authority |-> 1000, medium_authority |-> 800,
         live_qa |-> 300, low_authority |-> 200]]

\* _initialize_query_type_priorities: retrieval_priorities of the configuration,
\* the defaults when it is missing or empty
_initialize_query_type_priorities(config) ==
    IF "retrieval_priorities" \in DOMAIN config /\ DOMAIN config.retrieval_priorities # {}
    THEN config.retrieval_priorities
    ELSE default_retrieval_priorities

\* ConfigurableEnhancedRetriever.__init__(vector_store, config_path, **kwargs):
\* the model declares the fields vector_store, expert_keywords,
\* query_type_priorities and expert_name; a keyword argument that is not a field
\* (the k of search_kwargs) is not kept by the pydantic model
ConfigurableEnhancedRetriever(config_path, kwargs) ==
    LET config == load_expert_config(config_path)
    IN [expert_keywords |-> _initialize_expert_keywords(config),
        query_type_priorities |-> _initialize_query_type_priorities(config),
        expert_name |-> replace(lower(Get(Get(config, "expert_profile", [none |-> ""]),
                                          "name", "Expert")), " ", "_")]

\* create_expert_enhanced_retriever(vector_store, config_path, search_kwargs)
create_expert_enhanced_retriever(config_path, kwargs) ==
    ConfigurableEnhancedRetriever(config_path, kwargs)

\* metadata.get(key) or metadata.get(legacy_key, default); falsy is the value of
\* the first lookup that `or` passes over ("" for strings, 0 for numbers)
get_or(metadata, key, legacy_key, default, falsy) ==
    IF key \in DOMAIN metadata /\ metadata[key] # falsy THEN metadata[key]
    ELSE Get(metadata, legacy_key, default)

Expert_classify_query(self, query) ==
    matching_categories(self.expert_keywords, 1, lower(query))

\* priorities.get(label, 0.5) with priorities = self.query_type_priorities.get(intent, {})
expert_priority(self, query_intent, label) ==
    IF query_intent \in DOMAIN self.query_type_priorities
    THEN Get(self.query_type_priorities[query_intent], label, 500)
    ELSE 500

\* the bonus of one query category (the if/elif chain of the loop body), in 1/100000
expert_category_boost(category, metadata, expert_frameworks) ==
    IF Contains(category, "first_sale") /\ Contains(expert_frameworks, "authentic_selling")
    THEN 50000
    ELSE IF Contains(category, "customer_research")
            /\ Contains(expert_frameworks, "customer_research") THEN 50000
    ELSE IF Contains(category, "offers") /\ Contains(expert_frameworks, "winning_offer")
    THEN 50000
    ELSE IF Contains(category, "contrarian") THEN Get(metadata, "contrarian_density", 0) * 50
    ELSE IF Contains(category, "frameworks") THEN Get(metadata, "framework_density", 0) * 50
    ELSE IF Contains(category, "testing") /\ Get(metadata, "tactical_density", 0) > 300
    THEN Get(metadata, "tactical_density", 0) * 30
    ELSE 0

RECURSIVE expert_categories_boost(_, _, _, _)
expert_categories_boost(query_categories, i, metadata, expert_frameworks) ==
    IF i > Len(query_categories) THEN 0
    ELSE expert_category_boost(query_categories[i], metadata, expert_frameworks)
         + expert_categories_boost(query_categories, i + 1, metadata, expert_frameworks)

\* _calculate_expert_relevance_score, in 1/100000
_calculate_expert_relevance_score(self, doc, query_categories, query_intent) ==
    LET metadata == doc.metadata
    IN
    (IF get_or(metadata, self.expert_name \o "_primary_type", "ramit_primary_type",
               "general", "") # "general" THEN 30000 ELSE 0)
    + expert_priority(self, query_intent, Get(metadata, "document_source_type", "unknown")) * 40
    + expert_priority(self, query_intent, Get(metadata, "teaching_context", "unknown")) * 30
    + expert_priority(self, query_intent, Get(metadata, "confidence_level", "unknown")) * 20
    + Get(metadata, "authority_score", 500) * 30
    + Get(metadata, "classification_confidence", 500) * 10
    + expert_categories_boost(query_categories, 1, metadata,
          get_or(metadata, self.expert_name \o "_frameworks", "ramit_frameworks", "", ""))
    + get_or(metadata, self.expert_name \o "_contrarian_score", "ramit_contrarian_score", 0, 0) * 15
    + get_or(metadata, self.expert_name \o "_tactical_score", "ramit_tactical_score", 0, 0) * 15
    + get_or(metadata, self.expert_name \o "_framework_score", "ramit_framework_score", 0, 0) * 15
    + get_or(metadata, self.expert_name \o "_case_study_score", "ramit_case_study_score", 0, 0) * 10
    + Min2(CountNonBlankParts(get_or(metadata, self.expert_name \o "_signatures",
                                     "ramit_signatures", "", ""), 1, FALSE) * 10000, 30000)

\* the (doc, score) list built by the scoring loop
expert_scored(self, initial_results, query_categories, query_intent) ==
    [i \in 1..Len(initial_results) |->
        [doc |-> initial_results[i],
         score |-> _calculate_expert_relevance_score(self, initial_results[i],
                                                     query_categories, query_intent)]]

\* a plausible slip: a sort that is not stable
Expert_get_relevant_documents_unstable(self, ranking, query) ==
    LET sorted == sort_reverse_unstable(expert_scored(self, similarity_search(ranking, k * 2),
                                                      Expert_classify_query(self, query),
                                                      _classify_query_intent(query)))
    IN [searched |-> k * 2, scored_results |-> sorted, returned |-> top_docs(sorted)]

\* ConfigurableEnhancedRetriever._get_relevant_documents: the k it hands to
\* similarity_search, the sorted list it builds and the list it returns
Expert_get_relevant_documents(self, ranking, query) ==
    LET sorted == sort_reverse(expert_scored(self, similarity_search(ranking, k * 2),
                                             Expert_classify_query(self, query),
                                             _classify_query_intent(query)))
    IN [searched |-> k * 2, scored_results |-> sorted, returned |-> top_docs(sorted)]


(***************************************************************************)
(* State.                                                                  *)
(***************************************************************************)
VARIABLES
    pc,                 \* the operation that ran last
    vector_store,       \* the similarity engine's ranking of the stored chunks for the query
    query,              \* the query string of the last call
    query_intent,       \* _classify_query_intent(query)
    query_categories,   \* _classify_query(query)
    scored_results,     \* the sorted (doc, score) list of _get_relevant_documents
    results,            \* the list returned by _get_relevant_documents
    retriever,          \* the retriever object in use
    search_kwargs,      \* the search_kwargs handed to the retriever factory
    searches,           \* the k of each similarity_search call of the engine, in order
    classifier,         \* the class of the classifier in use
    expert_config,      \* the expert configuration the process loaded
    document,           \* the document handed to classify_document
    classification,     \* the DocumentClassification it returned
    set_order,          \* the iteration order of string sets in this process
    chunks,             \* the chunks being ingested; their metadata is updated in place
    enhanced_documents, \* the list returned by the last enhancement call
    raised,             \* whether the last call ended in an exception
    function_call,      \* a function of the classifier and its arguments
    function_value      \* the value the function returned

retriever_vars ==
    <<vector_store, query, query_intent, query_categories, scored_results, results,
      retriever, search_kwargs, searches>>
classifier_vars == <<classifier, document, classification>>
ingest_vars == <<set_order, chunks, enhanced_documents>>
function_vars == <<function_call, function_value>>
vars == <<pc, retriever_vars, classifier_vars, ingest_vars, expert_config, raised, function_vars>>

no_config == [expert_profile |-> [name |-> "expert"]]
no_retriever == [expert_name |-> "none"]
unclassified == [document_source_type |-> "unset"]

\* the parts of the state an operation of another component never touches
RetrieverIdle ==
    /\ vector_store = <<>>
    /\ query = ""
    /\ query_intent = "unset"
    /\ query_categories = <<"unset">>
    /\ scored_results = <<>>
    /\ results = <<>>
    /\ retriever = no_retriever
    /\ search_kwargs = [k |-> 5]
    /\ searches = <<>>

ClassifierIdle ==
    /\ classifier = "none"
    /\ document = [page_content |-> "", metadata |-> [filename |-> ""]]
    /\ classification = unclassified

IngestIdle ==
    /\ set_order = <<>>
    /\ chunks = <<>>
    /\ enhanced_documents = <<>>

FunctionIdle ==
    /\ function_call = [function |-> "none"]
    /\ function_value = 0

(***************************************************************************)
(* Inputs.                                                                 *)
(***************************************************************************)
\* chunks as the ingestion pipeline stores them; qa_chunk and lesson_chunk differ
\* only in document_source_type, qa_chunk and qa_chunk_2 only in their text
qa_metadata ==
    [source |-> "live_qa_session_pricing.pdf",
     document_source_type |-> "live_qa",
     teaching_context |-> "situational_advice",
     confidence_level |-> "suggested_approach",
     authority_score |-> 600,
     classification_confidence |-> 600,
     framework_density |-> 400,
     tactical_density |-> 500,
     contrarian_density |-> 0,
     ramit_primary_type |-> "tactical",
     ramit_frameworks |-> "customer_research",
     ramit_tactical_score |-> 500,
     ramit_signatures |-> "business isn't magic, it's math"]

qa_chunk == [page_content |-> "Ramit: It depends on your situation.", metadata |-> qa_metadata]
qa_chunk_2 == [page_content |-> "Student: How do I know if I'm charging enough?", metadata |-> qa_metadata]
lesson_chunk ==
    [page_content |-> "Ramit: It depends on your situation.",
     metadata |-> [qa_metadata EXCEPT !.document_source_type = "structured_lesson"]]

ChunkPool == {qa_chunk, qa_chunk_2, lesson_chunk}

MaxCandidates == 6
Rankings == UNION {[1..n -> ChunkPool] : n \in 0..MaxCandidates}

RetrievalQueries ==
    {"I'm struggling with pricing, what should I do?",
     "What is the customer research framework?",
     "Show me a real example of business success",
     ""}

\* the queries of test_query_intent_classification and of the end-to-end scenario
TestQueries ==
    {"How do I start a business?",
     "What is the framework for customer research?",
     "I'm struggling with pricing",
     "My business is not working",
     "Show me an example of success",
     "Give me a case study",
     "What's the systematic approach?",
     "I need a step-by-step process",
     "I'm struggling with pricing, what should I do?"}

Phrases ==
    <<"How do I", "framework for", "Struggling", "not working", "example",
      "Case Study", "systematic", "step by step", "step-by-step", "pricing", "hello">>

RECURSIVE JoinPhrases(_)
JoinPhrases(ps) ==
    IF Len(ps) = 0 THEN ""
    ELSE IF Len(ps) = 1 THEN Phrases[ps[1]]
    ELSE Phrases[ps[1]] \o " " \o JoinPhrases(Tail(ps))

MaxPhrases == 2
PhraseQueries ==
    {JoinPhrases(ps) : ps \in UNION {[1..n -> 1..Len(Phrases)] : n \in 0..MaxPhrases}}

IntentQueries == TestQueries \cup PhraseQueries

(***************************************************************************)
(* Query classification on its own: the query is drawn at the start and   *)
(* each classifier is applied to it.                                       *)
(***************************************************************************)
InitIntent ==
    /\ pc = "ready"
    /\ vector_store = <<>>
    /\ query \in IntentQueries
    /\ query_intent = "unset"
    /\ query_categories = <<"unset">>
    /\ scored_results = <<>>
    /\ results = <<>>
    /\ retriever = RamitEnhancedRetriever
    /\ search_kwargs = [k |-> 5]
    /\ searches = <<>>
    /\ ClassifierIdle
    /\ IngestIdle
    /\ FunctionIdle
    /\ expert_config = no_config
    /\ raised = FALSE

ClassifyQueryIntent ==
    /\ query_intent = "unset"
    /\ pc' = "_classify_query_intent"
    /\ query_intent' = _classify_query_intent(query)
    /\ UNCHANGED <<vector_store, query, query_categories, scored_results, results,
                   retriever, search_kwargs, searches>>
    /\ UNCHANGED <<classifier_vars, ingest_vars, expert_config, raised, function_vars>>

ClassifyQuery ==
    /\ query_categories = <<"unset">>
    /\ pc' = "_classify_query"
    /\ query_categories' = _classify_query(query)
    /\ UNCHANGED <<vector_store, query, query_intent, scored_results, results,
                   retriever, search_kwargs, searches>>
    /\ UNCHANGED <<classifier_vars, ingest_vars, expert_config, raised, function_vars>>

NextIntent == ClassifyQueryIntent \/ ClassifyQuery
SpecIntent == InitIntent /\ [][NextIntent]_vars

(***************************************************************************)
(* Retrieval: one call of _get_relevant_documents on the drawn query and  *)
(* the drawn ranking of the similarity engine.                             *)
(***************************************************************************)
InitRetrieve ==
    /\ pc = "ready"
    /\ vector_store \in Rankings
    /\ query \in RetrievalQueries
    /\ query_intent = "unset"
    /\ query_categories = <<"unset">>
    /\ scored_results = <<>>
    /\ results = <<>>
    /\ retriever = RamitEnhancedRetriever
    /\ search_kwargs = [k |-> 5]
    /\ searches = <<>>
    /\ ClassifierIdle
    /\ IngestIdle
    /\ FunctionIdle
    /\ expert_config = no_config
    /\ raised = FALSE

GetRelevantDocuments ==
    /\ pc = "ready"
    /\ pc' = "_get_relevant_documents"
    /\ query_intent' = _classify_query_intent(query)
    /\ query_categories' = _classify_query(query)
    /\ \E found \in {_get_relevant_documents(vector_store, query)} :
          /\ scored_results' = found.scored_results
          /\ results' = found.returned
    /\ searches' = Append(searches, k * 2)
    /\ UNCHANGED <<vector_store, query, retriever, search_kwargs>>
    /\ UNCHANGED <<classifier_vars, ingest_vars, expert_config, raised, function_vars>>

NextRetrieve == GetRelevantDocuments
SpecRetrieve == InitRetrieve /\ [][NextRetrieve]_vars

(***************************************************************************)
(* Expert configurations (the YAML file as a dict; sections in file       *)
(* order).                                                                 *)
(***************************************************************************)
ramit_config ==
    [expert_profile |-> [name |-> "Ramit"],
     content_types |-> <<"framework", "tactical", "contrarian", "case_study">>,
     signature_phrases |->
        <<[category |-> "core_concepts",
           phrases |-> <<[phrase |-> "business isn't magic, it's math",
                          content_type |-> "framework", weight |-> 800],
                         [phrase |-> "Money Dials",
                          content_type |-> "mindset", weight |-> 600]>>]>>,
     frameworks |->
        <<[name |-> "customer_research",
           keywords |-> <<"customer", "research", "interview">>]>>,
     document_types |->
        <<[category |-> "structured_lesson", patterns |-> <<"lesson\\s+\\d+", "framework">>],
          [category |-> "live_qa",
           patterns |-> <<"live\\s+session", "that's a great question", "\\w+ asked">>]>>,
     teaching_contexts |->
        <<[category |-> "systematic_instruction", patterns |-> <<"step\\s+\\d+">>],
          [category |-> "situational_advice", patterns |-> <<"it depends", "in your case">>]>>,
     authority_levels |->
        <<[category |-> "definitive_framework", patterns |-> <<"proven framework">>],
          [category |-> "suggested_approach", patterns |-> <<"I recommend">>],
          [category |-> "off_the_cuff", patterns |-> <<"I think", "might be">>]>>]

\* a phrase re cannot compile
malformed_phrase == [phrase |-> "rich life (really", content_type |-> "mindset", weight |-> 500]

\* xs with x inserted so that it becomes element i
InsertAt(xs, i, x) == SubSeq(xs, 1, i - 1) \o <<x>> \o SubSeq(xs, i, Len(xs))

\* ramit_config with the malformed phrase as i-th signature phrase
malformed_signature_config(i) ==
    [ramit_config EXCEPT
       !.signature_phrases[1].phrases = InsertAt(@, i, malformed_phrase)]

\* ramit_config with a pattern re cannot compile in each classifier section
malformed_pattern_config ==
    [ramit_config EXCEPT
       !.document_types[2].patterns = InsertAt(@, 1, "q&a ("),
       !.teaching_contexts[1].patterns = Append(@, "[unclosed"),
       !.authority_levels[2].patterns = InsertAt(@, 1, "*recommend")]

\* ramit_config with one pattern re cannot compile, written with \w
malformed_keyword_config ==
    [ramit_config EXCEPT !.document_types[1].patterns = Append(@, "\\w+ (lesson")]

\* ramit_config with a weight, in tenths, written beside each source-type pattern
weighted_config ==
    [ramit_config EXCEPT
       !.document_types =
          <<[category |-> "structured_lesson", patterns |-> <<"lesson\\s+\\d+", "framework">>,
             weights |-> <<1, 5>>],
            [category |-> "live_qa",
             patterns |-> <<"live\\s+session", "that's a great question", "\\w+ asked">>,
             weights |-> <<2, 2, 1>>]>>]

\* the sections the analyzer requires and nothing for the classifier
minimal_config ==
    [expert_profile |-> [name |-> "Ramit"],
     content_types |-> <<>>,
     signature_phrases |-> <<>>]


(***************************************************************************)
(* Retrieval with ConfigurableEnhancedRetriever: the factory is called    *)
(* with the drawn configuration and search_kwargs, then the retriever is  *)
(* asked once for the drawn query.                                         *)
(***************************************************************************)
\* a configuration with the sections the retriever reads
retriever_config ==
    [expert_profile |-> [name |-> "Jane Doe"],
     content_types |-> <<>>,
     signature_phrases |-> <<>>,
     query_intent_classification |->
        <<[name |-> "pricing", keywords |-> <<"pricing", "charge">>],
          [name |-> "customer_research", keywords |-> <<"customer research">>]>>,
     frameworks |->
        <<[name |-> "customer_research",
           keywords |-> <<"customer", "research", "interview">>]>>,
     retrieval_priorities |->
        [specific_problems |-> [live_qa |-> 900, structured_lesson |-> 500],
         foundational |-> [structured_lesson |-> 1000, live_qa |-> 400]]]

\* chunks stored without classification or analysis metadata
bare_chunk == [page_content |-> "Ramit: It depends on your situation.", metadata |-> <<>>]
bare_chunk_2 ==
    [page_content |-> "Student: How do I know if I'm charging enough?", metadata |-> <<>>]

ExpertChunkPool == {bare_chunk, bare_chunk_2, lesson_chunk}
ExpertRankings == UNION {[1..n -> ExpertChunkPool] : n \in 0..MaxCandidates}

ExpertQueries ==
    {"I'm struggling with pricing, what should I do?",
     "What is the customer research framework?"}

InitExpertRetrieve ==
    /\ pc = "ready"
    /\ vector_store \in ExpertRankings
    /\ query \in ExpertQueries
    /\ query_intent = "unset"
    /\ query_categories = <<"unset">>
    /\ scored_results = <<>>
    /\ results = <<>>
    /\ retriever = no_retriever
    /\ search_kwargs \in {[k |-> 2], [k |-> 5]}
    /\ searches = <<>>
    /\ ClassifierIdle
    /\ IngestIdle
    /\ FunctionIdle
    /\ expert_config \in {retriever_config, minimal_config}
    /\ raised = FALSE

CreateExpertEnhancedRetriever ==
    /\ pc = "ready"
    /\ pc' = "create_expert_enhanced_retriever"
    /\ retriever' = create_expert_enhanced_retriever(expert_config, search_kwargs)
    /\ UNCHANGED <<vector_store, query, query_intent, query_categories, scored_results,
                   results, search_kwargs, searches>>
    /\ UNCHANGED <<classifier_vars, ingest_vars, expert_config, raised, function_vars>>

ExpertGetRelevantDocuments ==
    /\ pc = "create_expert_enhanced_retriever"
    /\ pc' = "ConfigurableEnhancedRetriever._get_relevant_documents"
    /\ query_intent' = _classify_query_intent(query)
    /\ query_categories' = Expert_classify_query(retriever, query)
    /\ \E found \in {Expert_get_relevant_documents(retriever, vector_store, query)} :
          /\ searches' = Append(searches, found.searched)
          /\ scored_results' = found.scored_results
          /\ results' = found.returned
    /\ UNCHANGED <<vector_store, query, retriever, search_kwargs>>
    /\ UNCHANGED <<classifier_vars, ingest_vars, expert_config, raised, function_vars>>

NextExpertRetrieve == CreateExpertEnhancedRetriever \/ ExpertGetRelevantDocuments
SpecExpertRetrieve == InitExpertRetrieve /\ [][NextExpertRetrieve]_vars

(***************************************************************************)
(* Documents to classify.                                                  *)
(***************************************************************************)
live_qa_test_document ==
    [page_content |->
        "\n            Ramit: That's a great question from Sarah in the chat. She's asking about \n            pricing for her consulting services. \n            \n            Student: How do I know if I'm charging enough?\n            \n            Ramit: It depends on your situation. In your case, I'd recommend starting \n            with market research. What I would do is look at what others in your space \n            are charging and position yourself accordingly. My recommendation would be \n            to test different price points.\n            ",
     filename |-> "live_qa_session_pricing.pdf"]

\* the live Q&A scenario: filename and body
live_qa_scenario_document ==
    [page_content |-> "Ramit: that's a great question... it depends on your situation",
     filename |-> "live_qa_pricing.pdf"]

Sentences ==
    <<"Ramit: That's a GREAT question.",
      "It depends on your situation.",
      "I'd recommend starting higher.",
      "I recommend this proven framework.",
      "I think it might be a case study.",
      "Hello there.">>

\* the sentences numbered in picked, in the order of Sentences, joined by spaces
RECURSIVE JoinSentences(_, _)
JoinSentences(picked, i) ==
    IF i > Len(Sentences) THEN ""
    ELSE LET rest == JoinSentences(picked, i + 1)
         IN IF i \notin picked THEN rest
            ELSE IF rest = "" THEN Sentences[i]
            ELSE Sentences[i] \o " " \o rest

MaxSentences == 2
Documents ==
    {[page_content |-> JoinSentences(picked, 1), metadata |-> [filename |-> filename]] :
        picked \in {S \in SUBSET (1..Len(Sentences)) : Cardinality(S) <= MaxSentences},
        filename \in {"", "notes.pdf", "live_qa_pricing.pdf", "Student_Teardown.pdf",
                      "x\\w.pdf"}}
    \cup {[page_content |-> d.page_content, metadata |-> [filename |-> d.filename]] :
            d \in {live_qa_test_document, live_qa_scenario_document}}
    \cup {[page_content |-> "It depends.", metadata |-> [source |-> "notes.pdf"]]}
    \cup {[page_content |-> text, metadata |-> [filename |-> filename]] :
            text \in {"Methodology, systematic approach, complete guide, step by step. Good question.",
                      "Methodology: a complete guide, step by step.",
                      "A framework is a framework is a framework is a framework, Sarah asked.",
                      "Framework, framework, framework."},
            filename \in {"live_qa_pricing.pdf", "x\\w.pdf"}}

(***************************************************************************)
(* Classification: a classifier and a document are drawn, and             *)
(* classify_document is called once.                                       *)
(***************************************************************************)
InitClassify ==
    /\ pc = "ready"
    /\ RetrieverIdle
    /\ IngestIdle
    /\ FunctionIdle
    /\ \/ classifier = "DocumentClassifier" /\ expert_config = no_config
       \/ classifier = "ConfigurableDocumentClassifier" /\ expert_config \in {ramit_config, malformed_pattern_config,
                              malformed_keyword_config, minimal_config, weighted_config}
    /\ document \in Documents
    /\ classification = unclassified
    /\ raised = FALSE

\* DocumentClassifier().classify_document(document)
ClassifyDocument ==
    /\ pc = "ready"
    /\ classifier = "DocumentClassifier"
    /\ pc' = "classify_document"
    /\ \E result \in {classify_document(document)} :
          /\ classification' = IF result.raised THEN unclassified ELSE result
          /\ raised' = result.raised
    /\ UNCHANGED <<classifier, document, retriever_vars, ingest_vars, expert_config, function_vars>>

\* ConfigurableDocumentClassifier(config_path).classify_document(document)
ConfigurableClassifyDocument ==
    /\ pc = "ready"
    /\ classifier = "ConfigurableDocumentClassifier"
    /\ pc' = "classify_document"
    /\ \E result \in {Configurable_classify_document(
                         ConfigurableDocumentClassifier(expert_config), document)} :
          /\ classification' = IF result.raised THEN unclassified ELSE result
          /\ raised' = result.raised
    /\ UNCHANGED <<classifier, document, retriever_vars, ingest_vars, expert_config, function_vars>>

NextClassify == ClassifyDocument \/ ConfigurableClassifyDocument
SpecClassify == InitClassify /\ [][NextClassify]_vars

(***************************************************************************)
(* Ingestion: a batch of chunks, an expert configuration and a set        *)
(* iteration order are drawn; the batch is enhanced once, either by       *)
(* enhance_document_metadata itself or by split_documents around it.      *)
(***************************************************************************)
IngestChunkPool ==
    {[page_content |-> text,
      metadata |-> [source |-> "lesson_3.pdf", document_source_type |-> "structured_lesson"]] :
        text \in {"Business isn't magic, it's math.",
                  "Use MONEY DIALS in customer research interviews.",
                  "First, test and validate the price.",
                  "Mind reading finds the dream outcome; conventional wisdom says validate with the customer.",
                  "Customer, customer: start before you're ready.",
                  "Hello."}}

MaxChunks == 1
Batches == UNION {[1..n -> IngestChunkPool] : n \in 0..MaxChunks}

\* two of the orders in which a process can iterate a set of these strings
SetOrders ==
    {<<"framework", "mindset", "tactical", "contrarian", "case_study", "testing", "story",
       "numbers", "customer_research", "winning_offer", "authentic_selling",
       "profit_playbook", "testing_framework">>,
     <<"testing_framework", "profit_playbook", "authentic_selling", "winning_offer",
       "customer_research", "numbers", "story", "testing", "case_study", "contrarian",
       "tactical", "mindset", "framework">>}

InitIngest ==
    /\ pc = "ready"
    /\ RetrieverIdle
    /\ ClassifierIdle
    /\ FunctionIdle
    /\ expert_config \in {ramit_config} \cup {malformed_signature_config(i) : i \in 1..3}
    /\ set_order \in SetOrders
    /\ chunks \in Batches
    /\ enhanced_documents = <<>>
    /\ raised = FALSE

\* enhance_document_metadata(chunks, config_path)
EnhanceDocumentMetadata ==
    /\ pc = "ready"
    /\ pc' = "enhance_document_metadata"
    /\ \E enhanced \in {enhance_document_metadata(chunks, expert_config, set_order)} :
          /\ chunks' = enhanced.documents
          /\ enhanced_documents' = IF enhanced.raised THEN <<>> ELSE enhanced.documents
          /\ raised' = enhanced.raised
    /\ UNCHANGED <<set_order, expert_config, retriever_vars, classifier_vars, function_vars>>

\* split_documents(documents, enhance_with_expert_analysis) from the chunks on
SplitDocuments ==
    /\ pc = "ready"
    /\ \E enhance_with_expert_analysis \in BOOLEAN :
          /\ pc' = IF enhance_with_expert_analysis THEN "split_documents"
                   ELSE "split_documents without analysis"
          /\ \E returned \in {split_documents_enhance(chunks, enhance_with_expert_analysis,
                                                      expert_config, set_order)} :
                /\ chunks' = returned
                /\ enhanced_documents' = returned
    /\ raised' = FALSE
    /\ UNCHANGED <<set_order, expert_config, retriever_vars, classifier_vars, function_vars>>

\* ramit_analyzer.enhance_document_metadata(chunks)
RamitEnhanceDocumentMetadata ==
    /\ pc = "ready"
    /\ pc' = "ramit_analyzer.enhance_document_metadata"
    /\ \E enhanced \in {ramit_enhance_document_metadata(chunks, set_order)} :
          /\ chunks' = enhanced.documents
          /\ enhanced_documents' = IF enhanced.raised THEN <<>> ELSE enhanced.documents
          /\ raised' = enhanced.raised
    /\ UNCHANGED <<set_order, expert_config, retriever_vars, classifier_vars, function_vars>>

NextIngest == EnhanceDocumentMetadata \/ SplitDocuments \/ RamitEnhanceDocumentMetadata
SpecIngest == InitIngest /\ [][NextIngest]_vars

(***************************************************************************)
(* Properties of reranking.                                                *)
(***************************************************************************)
SeqToSet(seq) == {seq[i] : i \in DOMAIN seq}
Count(seq, x) == Cardinality({i \in DOMAIN seq : seq[i] = x})
IsPrefix(a, b) == Len(a) <= Len(b) /\ a = SubSeq(b, 1, Len(a))
Retrieved == pc = "_get_relevant_documents"
\* the candidate list the similarity engine returned to the call
candidates == similarity_search(vector_store, k * 2)
\* the relevance score the call gave a candidate
score_of(doc) == (CHOOSE r \in SeqToSet(scored_results) : r.doc = doc).score

\* C1: rerank returns exactly min(desiredCount, len(candidates)) chunks, every one
\* of them a candidate, none more often than among the candidates; when
\* desiredCount >= len(candidates) every candidate appears exactly as often as it
\* did in the candidate list.
C1_RerankReturnsSubset ==
    Retrieved =>
        /\ Len(results) = Min2(k, Len(candidates))
        /\ \A i \in 1..Len(results) : \E j \in 1..Len(candidates) : candidates[j] = results[i]
        /\ \A d \in ChunkPool : Count(results, d) <= Count(candidates, d)
        /\ (k >= Len(candidates) => \A d \in ChunkPool : Count(results, d) = Count(candidates, d))

\* C1 witness: more candidates than k, one of them twice, and k chunks returned
C1_Witness ==
    /\ Retrieved
    /\ Len(candidates) > k
    /\ \E d \in ChunkPool : Count(candidates, d) >= 2 /\ Count(results, d) >= 1
    /\ Len(results) = k

\* C2: the returned list is ordered by non-increasing score, chunks of equal
\* score keep the order of the similarity search (the descending sort is
\* stable), and the list is the first k of the sorted candidates (truncation
\* after sorting).
C2_SortedStableTruncated ==
    Retrieved =>
        /\ \A i \in 1..(Len(results) - 1) : score_of(results[i]) >= score_of(results[i + 1])
        /\ \A r \in SeqToSet(scored_results) :
              [i \in 1..Len(SelectSeq(scored_results, LAMBDA x : x.score = r.score)) |->
                    SelectSeq(scored_results, LAMBDA x : x.score = r.score)[i].doc]
                 = SelectSeq(candidates, LAMBDA c : score_of(c) = r.score)
        /\ Len(scored_results) = Len(candidates)
        /\ \A i \in 1..(Len(scored_results) - 1) :
              scored_results[i].score >= scored_results[i + 1].score
        /\ Len(results) = Min2(k, Len(scored_results))
        /\ \A i \in 1..Len(results) : results[i] = scored_results[i].doc

\* C2 witness: a returned list with a strict descent and with two different chunks
\* of equal score, cut from more than k candidates
C2_Witness ==
    /\ Retrieved
    /\ Len(candidates) > k
    /\ \E i \in 1..(Len(results) - 1) : score_of(results[i]) > score_of(results[i + 1])
    /\ \E i \in 1..(Len(results) - 1) :
          /\ results[i] # results[i + 1]
          /\ score_of(results[i]) = score_of(results[i + 1])

\* metadata identical except for document_source_type
SameButSourceType(a, b) ==
    /\ DOMAIN a.metadata = DOMAIN b.metadata
    /\ \A key \in DOMAIN a.metadata :
          key # "document_source_type" => a.metadata[key] = b.metadata[key]
    /\ a.metadata["document_source_type"] # b.metadata["document_source_type"]

\* C3: of two candidates that differ only in document_source_type, the one whose
\* source type has the strictly higher priority for the query's intent is never
\* below the other: no copy of the other precedes it, and when the other is
\* returned so is every copy of it.
C3_IntentPriorityDirectional ==
    Retrieved =>
        \A a \in ChunkPool, b \in ChunkPool :
            ( /\ Count(candidates, a) > 0
              /\ Count(candidates, b) > 0
              /\ SameButSourceType(a, b)
              /\ priority(query_intent, a.metadata["document_source_type"])
                    > priority(query_intent, b.metadata["document_source_type"]) )
            => /\ \A i \in 1..Len(results), j \in 1..Len(results) :
                      (results[i] = b /\ results[j] = a) => j < i
               /\ (Count(results, b) > 0 => Count(results, a) = Count(candidates, a))

\* C3 witness: under specific_problems a live_qa chunk that the similarity search
\* ranked below its structured_lesson twin is returned above it
C3_Witness ==
    /\ Retrieved
    /\ query_intent = "specific_problems"
    /\ Len(vector_store) >= 2
    /\ vector_store[1] = lesson_chunk
    /\ vector_store[2] = qa_chunk
    /\ results[1] = qa_chunk
    /\ \E i \in 2..Len(results) : results[i] = lesson_chunk

(***************************************************************************)
(* Properties of query classification.                                     *)
(***************************************************************************)
IntentLists ==
    << [intent |-> "foundational", indicators |-> foundational_indicators],
       [intent |-> "specific_problems", indicators |-> problem_indicators],
       [intent |-> "examples", indicators |-> example_indicators],
       [intent |-> "systematic", indicators |-> systematic_indicators] >>

\* the lists with a phrase occurring in the lower-cased query
ListsHit(q) ==
    {n \in 1..Len(IntentLists) :
        \E i \in 1..Len(IntentLists[n].indicators) :
            Contains(lower(q), IntentLists[n].indicators[i])}

\* C6: the intent is that of the first list, in the order foundational,
\* specific_problems, examples, systematic, with a phrase in the lower-cased
\* query, and "foundational" when no list has one.
C6_FirstMatchingListWins ==
    query_intent # "unset" =>
        IF ListsHit(query) = {} THEN query_intent = "foundational"
        ELSE query_intent = IntentLists[SetMin(ListsHit(query))].intent

\* C6 witness: a query that hits the problem list and a later list is classified
\* specific_problems
C6_Witness ==
    /\ query_intent = "specific_problems"
    /\ Cardinality(ListsHit(query)) >= 2

ScenarioQuery == "I'm struggling with pricing, what should I do?"

\* C7: the query "I'm struggling with pricing, what should I do?" gets intent
\* specific_problems and a topic-category list containing "pricing".
C7_ScenarioQuery ==
    query = ScenarioQuery =>
        /\ (query_intent # "unset" => query_intent = "specific_problems")
        /\ (query_categories # <<"unset">> => "pricing" \in SeqToSet(query_categories))

\* C7 witness: both classifiers have run on the scenario query
C7_Witness ==
    /\ query = ScenarioQuery
    /\ query_intent = "specific_problems"
    /\ "pricing" \in SeqToSet(query_categories)

\* the expected intents of test_query_intent_classification
ExpectedIntent ==
    [q \in TestQueries \ {ScenarioQuery} |->
        IF q \in {"How do I start a business?", "What is the framework for customer research?"}
            THEN "foundational"
        ELSE IF q \in {"I'm struggling with pricing", "My business is not working"}
            THEN "specific_problems"
        ELSE IF q \in {"Show me an example of success", "Give me a case study"}
            THEN "examples"
        ELSE "systematic"]

\* C8: each query of test_query_intent_classification is classified with the
\* intent the test expects, the hyphenated "step-by-step process" query included.
C8_TestQueriesClassified ==
    (query \in DOMAIN ExpectedIntent /\ query_intent # "unset")
        => query_intent = ExpectedIntent[query]

(***************************************************************************)
(* Properties of document classification.                                  *)
(***************************************************************************)
(***************************************************************************)
(* The calculations of the classifier on drawn arguments: the confidence   *)
(* of four evidence lists of drawn lengths, the density of a drawn match   *)
(* count in a text of a drawn number of words, and the authority score of  *)
(* drawn numbers of high, medium and low authority matches.                *)
(***************************************************************************)
MaxEvidence == 6
MaxCount == 6
MaxWords == 10
MaxAuthorityCount == 2
MaxLowCount == 43

InitCalculate ==
    /\ pc = "ready"
    /\ RetrieverIdle
    /\ ClassifierIdle
    /\ IngestIdle
    /\ expert_config = no_config
    /\ raised = FALSE
    /\ \/ function_call \in
            [function : {"_calculate_classification_confidence"},
             evidence_lists : [1..4 -> 0..MaxEvidence]]
       \/ function_call \in
            [function : {"_assess_content_quality"},
             count : 0..MaxCount,
             content_length : {0, 1, 7} \cup {400 * n : n \in 1..MaxWords}]
       \/ function_call \in
            [function : {"_calculate_authority_score"},
             high_authority_count : 0..MaxAuthorityCount,
             medium_authority_count : 0..MaxAuthorityCount,
             low_authority_count : 0..MaxLowCount]
    /\ function_value = 0

\* _calculate_classification_confidence(source_evidence, context_evidence,
\* confidence_evidence, authority_evidence)
CalculateClassificationConfidence ==
    /\ pc = "ready"
    /\ function_call.function = "_calculate_classification_confidence"
    /\ pc' = "_calculate_classification_confidence"
    /\ function_value' =
          _calculate_classification_confidence(
              function_call.evidence_lists[1] + function_call.evidence_lists[2]
              + function_call.evidence_lists[3] + function_call.evidence_lists[4])
    /\ UNCHANGED <<function_call, retriever_vars, classifier_vars, ingest_vars,
                   expert_config, raised>>

\* the normalisation by content length in _assess_content_quality
NormalizeDensity ==
    /\ pc = "ready"
    /\ function_call.function = "_assess_content_quality"
    /\ pc' = "_assess_content_quality"
    /\ function_value' = density(function_call.count, function_call.content_length)
    /\ UNCHANGED <<function_call, retriever_vars, classifier_vars, ingest_vars,
                   expert_config, raised>>

\* the weighted score of _calculate_authority_score for the three match counts
\* its loops arrive at
CalculateAuthorityScore ==
    /\ pc = "ready"
    /\ function_call.function = "_calculate_authority_score"
    /\ pc' = "_calculate_authority_score"
    /\ function_value' = weighted_authority_score(function_call.high_authority_count,
                                                  function_call.medium_authority_count,
                                                  function_call.low_authority_count)
    /\ UNCHANGED <<function_call, retriever_vars, classifier_vars, ingest_vars,
                   expert_config, raised>>

NextCalculate ==
    CalculateClassificationConfidence \/ NormalizeDensity \/ CalculateAuthorityScore
SpecCalculate == InitCalculate /\ [][NextCalculate]_vars

(***************************************************************************)
(* Properties of classification.                                           *)
(***************************************************************************)
Classified == pc = "classify_document"

\* the registries of the classifier in use
registries ==
    IF classifier = "DocumentClassifier"
    THEN [source_type_patterns |-> source_type_patterns,
          teaching_context_patterns |-> teaching_context_patterns,
          confidence_indicators |-> confidence_indicators,
          authority_indicators |-> authority_indicators,
          content_quality_patterns |-> content_quality_patterns]
    ELSE ConfigurableDocumentClassifier(expert_config)

\* the text matches a pattern of the registry, case-insensitively
SomeMatch(registry, text) ==
    \E c \in DOMAIN registry : \E j \in DOMAIN registry[c].patterns :
        /\ ~re_error(registry[c].patterns[j])
        /\ re_search(registry[c].patterns[j], text, TRUE)

\* the filename carries an indicator the classifier in use scores for a source type
FilenameIndicator ==
    LET filename_lower == lower(Get(document.metadata, "filename", ""))
    IN IF classifier = "DocumentClassifier"
       THEN AnyIn(<<"qa", "q&a", "teardown", "student", "behind", "bts">>, filename_lower)
       ELSE \E c \in DOMAIN registries.source_type_patterns :
               \E j \in DOMAIN registries.source_type_patterns[c].patterns :
                  \E keyword \in pattern_keywords(registries.source_type_patterns[c].patterns[j]) :
                     Contains(filename_lower, keyword)

Half == [num |-> 500, den |-> 1]

AllDensitiesZero ==
    \A quality_type \in DOMAIN classification.content_quality_indicators :
        classification.content_quality_indicators[quality_type] = 0

\* C4: classify_document on the empty text does not raise and returns "unknown"
\* for source type, teaching context and confidence level, authority score 0.5,
\* classification confidence 0.1 and every content-quality density 0.0.
C4_EmptyTextDefaults ==
    (Classified /\ document.page_content = "") =>
        /\ ~raised
        /\ classification.document_source_type = "unknown"
        /\ classification.teaching_context = "unknown"
        /\ classification.confidence_level = "unknown"
        /\ classification.authority_score = Half
        /\ classification.classification_confidence = 100
        /\ AllDensitiesZero

\* C5 as stated: a dimension none of whose patterns the text matches is
\* classified "unknown" whatever the filename is; without a matching authority
\* indicator the authority score is 0.5; without a matching quality pattern
\* every density is 0.0.
C5_NoMatchIsUnknown ==
    Classified =>
        LET text == lower(document.page_content)
        IN /\ ~SomeMatch(registries.source_type_patterns, text)
                => classification.document_source_type = "unknown"
           /\ ~SomeMatch(registries.teaching_context_patterns, text)
                => classification.teaching_context = "unknown"
           /\ ~SomeMatch(registries.confidence_indicators, text)
                => classification.confidence_level = "unknown"
           /\ ~SomeMatch(registries.authority_indicators, text)
                => classification.authority_score = Half
           /\ ~SomeMatch(registries.content_quality_patterns, text) => AllDensitiesZero

\* C5 amended: teaching context and confidence level are "unknown" whenever the
\* text matches none of their patterns, whatever the filename is; the source
\* type is "unknown" whenever the text matches none of its patterns and the
\* filename carries no source-type indicator; without a matching authority
\* indicator the authority score is 0.5; without a matching quality pattern
\* every density is 0.0.
C5_NoMatchIsUnknownUnlessFilename ==
    Classified =>
        LET text == lower(document.page_content)
        IN /\ ~raised
           /\ (~SomeMatch(registries.source_type_patterns, text) /\ ~FilenameIndicator)
                => classification.document_source_type = "unknown"
           /\ ~SomeMatch(registries.teaching_context_patterns, text)
                => classification.teaching_context = "unknown"
           /\ ~SomeMatch(registries.confidence_indicators, text)
                => classification.confidence_level = "unknown"
           /\ ~SomeMatch(registries.authority_indicators, text)
                => classification.authority_score = Half
           /\ ~SomeMatch(registries.content_quality_patterns, text) => AllDensitiesZero

\* a classified document with text whose body matches nothing in any dimension
\* and whose filename carries no indicator: everything is at its default
C5_Witness ==
    /\ Classified
    /\ classifier = "DocumentClassifier"
    /\ document.page_content = "Hello there."
    /\ document.metadata = [filename |-> "notes.pdf"]
    /\ classification.document_source_type = "unknown"
    /\ classification.teaching_context = "unknown"
    /\ classification.confidence_level = "unknown"
    /\ classification.authority_score = Half
    /\ AllDensitiesZero

\* the live Q&A scenario: the filename contains "live_qa" and the body both phrases
LiveQADocument ==
    /\ Contains(lower(Get(document.metadata, "filename", "")), "live_qa")
    /\ Contains(lower(document.page_content), "ramit: that's a great question")
    /\ Contains(lower(document.page_content), "it depends on your situation")

\* C9: DocumentClassifier classifies a live Q&A document as source type live_qa,
\* teaching context situational_advice and confidence level suggested_approach,
\* none of them "unknown", with an authority score strictly between 0 and 1.
C9_LiveQAScenario ==
    (Classified /\ classifier = "DocumentClassifier" /\ LiveQADocument) =>
        /\ classification.document_source_type = "live_qa"
        /\ classification.teaching_context = "situational_advice"
        /\ classification.confidence_level = "suggested_approach"
        /\ 0 < classification.authority_score.num
        /\ classification.authority_score.num < 1000 * classification.authority_score.den

\* labels, authority score, densities and confidence of a classification
RecordOf(result) ==
    [document_source_type |-> result.document_source_type,
     teaching_context |-> result.teaching_context,
     confidence_level |-> result.confidence_level,
     authority_score |-> result.authority_score,
     classification_confidence |-> result.classification_confidence,
     content_quality_indicators |-> result.content_quality_indicators]

\* C11: with a configuration that contains an unparseable regex, classify_document
\* does not raise and returns the same labels, authority score, densities and
\* confidence as with the configuration from which the unparseable patterns are
\* removed (ramit_config).
C11_MalformedPatternSkipped ==
    (Classified /\ expert_config \in {malformed_pattern_config, malformed_keyword_config}) =>
        /\ ~raised
        /\ RecordOf(classification)
             = RecordOf(Configurable_classify_document(
                            ConfigurableDocumentClassifier(ramit_config), document))

\* the summed length of the evidence lists of the call
TotalEvidence ==
    function_call.evidence_lists[1] + function_call.evidence_lists[2]
    + function_call.evidence_lists[3] + function_call.evidence_lists[4]

\* C13: the classification confidence is 0.1 for a total evidence count of 0,
\* 0.3 for 1 to 4, 0.6 for 5 to 9, 0.8 for 10 to 19 and 0.9 for 20 or more, and
\* no smaller total gets a larger confidence.
C13_ConfidenceBuckets ==
    pc = "_calculate_classification_confidence" =>
        /\ TotalEvidence = 0 => function_value = 100
        /\ TotalEvidence \in 1..4 => function_value = 300
        /\ TotalEvidence \in 5..9 => function_value = 600
        /\ TotalEvidence \in 10..19 => function_value = 800
        /\ TotalEvidence >= 20 => function_value = 900
        /\ \A fewer \in 0..TotalEvidence :
              _calculate_classification_confidence(fewer) <= function_value

\* twenty pieces of evidence, five in each list, and the highest confidence
C13_Witness ==
    /\ pc = "_calculate_classification_confidence"
    /\ function_call.evidence_lists = <<5, 5, 5, 5>>
    /\ function_value = 900

\* C14: for a word count above 0 the density never exceeds 1.0 and no smaller
\* match count in a text of the same word count gets a larger density; for a
\* word count of 0 the density is 0.0.
C14_DensityMonotoneCapped ==
    pc = "_assess_content_quality" =>
        /\ function_value <= 1000
        /\ function_call.content_length = 0 => function_value = 0
        /\ \A fewer \in 0..function_call.count :
              density(fewer, function_call.content_length) <= function_value

\* three matches in 4000 words: a density of 0.75, below the cap and above the
\* density of two matches
C14_Witness ==
    /\ pc = "_assess_content_quality"
    /\ function_call.count = 3
    /\ function_call.content_length = 4000
    /\ function_value = 750
    /\ density(2, 4000) = 500

(***************************************************************************)
(* Properties of ingestion.                                                *)
(***************************************************************************)
\* the keys analyze_content adds for the expert of expert_config
AnalysisKeys ==
    LET expert_prefix == replace(lower(expert_config.expert_profile.name), " ", "_")
    IN {expert_prefix \o suffix :
           suffix \in {"_primary_type", "_content_types", "_frameworks", "_signatures",
                       "_contrarian_score", "_tactical_score", "_framework_score",
                       "_case_study_score", "_mindset_score", "_testing_score",
                       "_numbers_score", "_story_score"}}

HasAnalysis(chunk) == AnalysisKeys \subseteq DOMAIN chunk.metadata

\* a signature phrase of expert_config that re cannot compile
MalformedSignature ==
    \E i \in DOMAIN _initialize_signatures(expert_config) :
        re_error(lower(_initialize_signatures(expert_config)[i].phrase))

\* C10: with a malformed signature phrase in the configuration,
\* enhance_document_metadata does not raise and returns every chunk of the batch
\* with its analysis metadata, and so do the chunks split_documents returns.
C10_MalformedSignatureSkipped ==
    (MalformedSignature /\ pc \in {"enhance_document_metadata", "split_documents"}) =>
        /\ ~raised
        /\ Len(enhanced_documents) = Len(chunks)
        /\ \A i \in DOMAIN enhanced_documents : HasAnalysis(enhanced_documents[i])

\* the metadata a chunk had before analyze_content added its keys
OriginalMetadata(chunk) ==
    [key \in (DOMAIN chunk.metadata) \ AnalysisKeys |-> chunk.metadata[key]]

\* C12: for a fixed configuration analyze_content returns the same metadata map
\* for the same chunk text and metadata in every process, whatever the order in
\* which the process iterates its sets: the metadata of every enhanced chunk is
\* the metadata analyze_content returns under each iteration order.
C12_IndependentOfSetOrder ==
    (pc = "enhance_document_metadata" /\ ~raised) =>
        \A i \in DOMAIN enhanced_documents : \A order \in SetOrders :
            enhanced_documents[i].metadata
              = analyze_content(ExpertContentAnalyzer(expert_config),
                                enhanced_documents[i].page_content,
                                OriginalMetadata(enhanced_documents[i]), order).metadata

\* the analyzer whose enhance_document_metadata ran last
Analyzer ==
    IF pc = "ramit_analyzer.enhance_document_metadata" THEN RamitContentAnalyzer
    ELSE ExpertContentAnalyzer(expert_config)

Enhanced == pc \in {"enhance_document_metadata", "ramit_analyzer.enhance_document_metadata"}

RECURSIVE SumSeq(_)
SumSeq(xs) == IF xs = <<>> THEN 0 ELSE Head(xs) + SumSeq(Tail(xs))

\* the distinct keywords of the framework that occur in the lower-cased text
Occurring(framework, text) ==
    {keyword \in {lower(framework.keywords[j]) : j \in DOMAIN framework.keywords} :
        Contains(lower(text), keyword)}

\* the name is one of the comma-joined names
Listed(name, joined) == Contains("," \o joined \o ",", "," \o name \o ",")

\* the summed weights of the signatures of a content type that the text matches
SignatureWeights(content_type, text) ==
    SumSeq([j \in DOMAIN Analyzer.signatures |->
              IF /\ Analyzer.signatures[j].content_type = content_type
                 /\ re_search(lower(Analyzer.signatures[j].phrase), lower(text), TRUE)
              THEN Analyzer.signatures[j].weight ELSE 0])

\* C15: a framework is among the frameworks of an analyzed chunk if and only if
\* at least two distinct keywords of its list occur in the chunk; the framework
\* score of the chunk is the weight of its framework signatures plus 0.2 for each
\* occurring keyword of each matched framework, so a framework with one occurring
\* keyword adds nothing.
C15_FrameworkNeedsTwoKeywords ==
    (Enhanced /\ ~raised) =>
        \A i \in DOMAIN enhanced_documents :
            LET text == enhanced_documents[i].page_content
                metadata == enhanced_documents[i].metadata
            IN /\ \A f \in DOMAIN Analyzer.frameworks :
                     Listed(Analyzer.frameworks[f].name, metadata["ramit_frameworks"])
                       <=> Cardinality(Occurring(Analyzer.frameworks[f], text)) >= 2
               /\ metadata["ramit_framework_score"]
                    = SignatureWeights("framework", text)
                      + SumSeq([f \in DOMAIN Analyzer.frameworks |->
                                  IF Cardinality(Occurring(Analyzer.frameworks[f], text)) >= 2
                                  THEN Cardinality(Occurring(Analyzer.frameworks[f], text)) * 200
                                  ELSE 0])

\* a chunk with two keywords of customer_research and one of testing_framework:
\* RamitContentAnalyzer gives it the first framework only, and 0.4
C15_Witness ==
    /\ pc = "ramit_analyzer.enhance_document_metadata"
    /\ Len(enhanced_documents) = 1
    /\ Occurring(RamitContentAnalyzer.frameworks[1], enhanced_documents[1].page_content)
         = {"mind reading", "dream outcome"}
    /\ Occurring(RamitContentAnalyzer.frameworks[5], enhanced_documents[1].page_content)
         = {"validate"}
    /\ enhanced_documents[1].metadata["ramit_frameworks"] = "customer_research"
    /\ enhanced_documents[1].metadata["ramit_framework_score"] = 400

\* C16: when every candidate carries the same metadata, the retriever returns the
\* first min(k, number of candidates) candidates in the order of the similarity
\* search
SameMetadata(docs) == \A i, j \in 1..Len(docs) : docs[i].metadata = docs[j].metadata

ExpertRetrieved == pc = "ConfigurableEnhancedRetriever._get_relevant_documents"

C16_SameMetadataKeepsOrder ==
    (ExpertRetrieved /\ SameMetadata(similarity_search(vector_store, searches[1])))
    => results = SubSeq(vector_store, 1, Min2(k, Len(vector_store)))

\* six candidates without metadata, the two texts alternating: the first five
\* come back as they were ranked
C16_Witness ==
    /\ ExpertRetrieved
    /\ vector_store = <<bare_chunk, bare_chunk_2, bare_chunk_2, bare_chunk,
                        bare_chunk_2, bare_chunk>>
    /\ results = <<bare_chunk, bare_chunk_2, bare_chunk_2, bare_chunk, bare_chunk_2>>

\* C17: a retrieval queries the engine once, with twice the k of the search_kwargs
\* handed to the factory, and returns at most that k chunks
C17_SearchesTwiceConfiguredCount ==
    ExpertRetrieved
    => /\ searches = <<2 * search_kwargs.k>>
       /\ Len(results) <= search_kwargs.k

\* C18: the registry of each categorical dimension has the key "unknown" whatever
\* the configuration holds, and a dimension the configuration omits labels every
\* document "unknown"
HasUnknown(registry) == \E i \in DOMAIN registry : registry[i].category = "unknown"

C18_UnknownAlwaysRegistered ==
    (Classified /\ classifier = "ConfigurableDocumentClassifier" /\ ~raised)
    => /\ HasUnknown(registries.source_type_patterns)
       /\ HasUnknown(registries.teaching_context_patterns)
       /\ HasUnknown(registries.confidence_indicators)
       /\ ("document_types" \notin DOMAIN expert_config
            => classification.document_source_type = "unknown")
       /\ ("teaching_contexts" \notin DOMAIN expert_config
            => classification.teaching_context = "unknown")
       /\ ("authority_levels" \notin DOMAIN expert_config
            => classification.confidence_level = "unknown")

\* the live Q&A test document under a configuration without the three sections
C18_Witness ==
    /\ Classified
    /\ classifier = "ConfigurableDocumentClassifier"
    /\ expert_config = minimal_config
    /\ document.page_content = live_qa_test_document.page_content
    /\ document.metadata = [filename |-> "live_qa_session_pricing.pdf"]
    /\ ~HasUnknown(Get(expert_config, "document_types", <<>>))
    /\ HasUnknown(registries.source_type_patterns)
    /\ classification.document_source_type = "unknown"
    /\ classification.teaching_context = "unknown"
    /\ classification.confidence_level = "unknown"

\* C19: for every analyzed chunk and every content type with a score, the final
\* score is at least the summed weights of the matched signature phrases of that
\* type: no later step of the analysis discards what the signatures added
ScoredTypes ==
    {"contrarian", "tactical", "framework", "case_study", "mindset", "testing",
     "numbers", "story"}

C19_SignatureWeightsKept ==
    (Enhanced /\ ~raised) =>
        \A i \in DOMAIN enhanced_documents : \A content_type \in ScoredTypes :
            enhanced_documents[i].metadata["ramit_" \o content_type \o "_score"]
              >= SignatureWeights(content_type, enhanced_documents[i].page_content)

\* the three categorical dimensions of the classification in the state: the
\* registry, the scores the classifier accumulated, the keys the filename checks
\* scored, and the label returned
Dimensions ==
    LET content == lower(document.page_content)
        filename == Get(document.metadata, "filename", "")
    IN <<[registry |-> registries.source_type_patterns,
          scores |-> IF classifier = "DocumentClassifier"
                     THEN _classify_source_type(content, filename).scores
                     ELSE Configurable_classify_source_type(registries, content, filename).scores,
          filename_scores |->
                     IF classifier = "DocumentClassifier" THEN filename_scores(filename).scores
                     ELSE configurable_filename_scores(registries.source_type_patterns, 1,
                                                       filename, no_scores).scores,
          label |-> classification.document_source_type],
         [registry |-> registries.teaching_context_patterns,
          scores |-> IF classifier = "DocumentClassifier"
                     THEN _classify_teaching_context(content).scores
                     ELSE Configurable_classify_teaching_context(registries, content).scores,
          filename_scores |-> <<>>,
          label |-> classification.teaching_context],
         [registry |-> registries.confidence_indicators,
          scores |-> IF classifier = "DocumentClassifier"
                     THEN _classify_confidence_level(content).scores
                     ELSE Configurable_classify_confidence_level(registries, content).scores,
          filename_scores |-> <<>>,
          label |-> classification.confidence_level]>>

\* the categories whose accumulated score is maximal
MaxKeys(scores) ==
    {scores[i].key : i \in {i \in DOMAIN scores :
                              \A j \in DOMAIN scores : scores[j].value <= scores[i].value}}

RegistryPosition(registry, category) ==
    CHOOSE c \in DOMAIN registry : registry[c].category = category

\* the place of a category among those that received a score: the categories
\* with a filename hit in the order of the filename checks, then the others in
\* registry order
ScoredPosition(dimension, category) ==
    IF \E i \in DOMAIN dimension.filename_scores : dimension.filename_scores[i].key = category
    THEN CHOOSE i \in DOMAIN dimension.filename_scores :
            dimension.filename_scores[i].key = category
    ELSE Len(dimension.filename_scores) + RegistryPosition(dimension.registry, category)

\* C20 as stated: in each categorical dimension the label has the maximal
\* accumulated score, and among the categories of maximal score it is the one
\* that comes first in the registry, also for source type with filename hits
C20_TieGoesToFirstInRegistry ==
    (Classified /\ ~raised) =>
        \A dimension \in SeqToSet(Dimensions) :
            dimension.scores # <<>> =>
                /\ dimension.label \in MaxKeys(dimension.scores)
                /\ \A category \in MaxKeys(dimension.scores) :
                      RegistryPosition(dimension.registry, dimension.label)
                        <= RegistryPosition(dimension.registry, category)

\* C20 amended: the label has the maximal accumulated score, and among the
\* categories of maximal score it is the one that received a score first:
\* a category with a filename hit before the others, otherwise registry order
C20_TieGoesToFirstScored ==
    (Classified /\ ~raised) =>
        \A dimension \in SeqToSet(Dimensions) :
            dimension.scores # <<>> =>
                /\ dimension.label \in MaxKeys(dimension.scores)
                /\ \A category \in MaxKeys(dimension.scores) :
                      ScoredPosition(dimension, dimension.label)
                        <= ScoredPosition(dimension, category)

\* the filename scores 0.3 for live_qa and one content match makes it 0.4; four
\* content matches make structured_lesson 0.4 as well; live_qa is returned
C20_Witness ==
    /\ Classified
    /\ classifier = "DocumentClassifier"
    /\ document.metadata = [filename |-> "live_qa_pricing.pdf"]
    /\ classification.document_source_type = "live_qa"
    /\ \E dimension \in {Dimensions[1]} :
          /\ MaxKeys(dimension.scores) = {"structured_lesson", "live_qa"}
          /\ RegistryPosition(dimension.registry, "structured_lesson")
               < RegistryPosition(dimension.registry, "live_qa")

(***************************************************************************)
(* Filename hits and pattern weights of the configurable classifier.     *)
(***************************************************************************)
\* the bare words of a pattern: the maximal runs of word characters of the
\* lower-cased pattern, its other characters stripped
bare_words(pattern) ==
    LET pattern_lower == lower(pattern)
    IN {SubSeq(pattern_lower, s, MatchAt("\\w+", pattern_lower, s, FALSE) - 1) :
           s \in {i \in 1..Len(pattern_lower) :
                     /\ IsWordCh(Ch(pattern_lower, i))
                     /\ (i = 1 \/ ~IsWordCh(Ch(pattern_lower, i - 1)))}}

\* a bare word of one of the patterns occurs in the lower-cased filename
FilenameHit(patterns, filename) ==
    \E j \in DOMAIN patterns :
        \E keyword \in bare_words(patterns[j]) : Contains(lower(filename), keyword)

\* C21: when the lower-cased filename contains a bare word of one of the
\* patterns of a source type, the filename loop of the configurable classifier
\* scores exactly 0.3 for that source type, once
C21_FilenameKeywordScores ==
    (Classified /\ classifier = "ConfigurableDocumentClassifier" /\ ~raised) =>
        \A scores \in {configurable_filename_scores(
                           registries.source_type_patterns, 1,
                           Get(document.metadata, "filename", ""), no_scores).scores} :
            \A c \in DOMAIN registries.source_type_patterns :
                FilenameHit(registries.source_type_patterns[c].patterns,
                            Get(document.metadata, "filename", ""))
                => \E i \in DOMAIN scores :
                      /\ scores[i].key = registries.source_type_patterns[c].category
                      /\ scores[i].value = float_literal(3)

\* the weight, in tenths, the configuration gives pattern j of a source type; a
\* pattern without a configured weight weighs 0.1
pattern_weight(type_config, j) ==
    IF "weights" \in DOMAIN type_config THEN type_config.weights[j] ELSE 1

\* sum over the patterns of a source type of the number of matches in the
\* text times the weight of the pattern, in tenths
weighted_matches(type_config, content) ==
    SumSeq([j \in DOMAIN type_config.patterns |->
               IF re_error(type_config.patterns[j]) THEN 0
               ELSE re_findall_len(type_config.patterns[j], content, TRUE)
                    * pattern_weight(type_config, j)])

\* the value under key in a scores dict, 0 when the key is absent
score_under(scores, key) ==
    IF \E i \in DOMAIN scores : scores[i].key = key
    THEN scores[CHOOSE i \in DOMAIN scores : scores[i].key = key].value
    ELSE 0

\* C22: the score a source type accumulates from the content is the sum over its
\* patterns of the number of matches times the configured weight of the pattern
C22_PatternWeightsApplied ==
    (Classified /\ classifier = "ConfigurableDocumentClassifier" /\ ~raised
       /\ "document_types" \in DOMAIN expert_config) =>
        \A scores \in {score_registry(registries.source_type_patterns, 1,
                                      lower(document.page_content), TRUE, TRUE,
                                      no_scores).scores} :
            \A c \in DOMAIN expert_config.document_types :
                float_tenths(score_under(scores, expert_config.document_types[c].category))
                  = weighted_matches(expert_config.document_types[c],
                                     lower(document.page_content))

(***************************************************************************)
(* The primary type of an analysed chunk.                                  *)
(***************************************************************************)
EightTypes ==
    {"framework", "tactical", "contrarian", "case_study", "mindset", "testing", "numbers",
     "story"}

\* the eight scores of an analysed chunk, in thousandths, as its metadata holds them
EightScores(chunk) == [type \in EightTypes |-> chunk.metadata["ramit_" \o type \o "_score"]]

HighestScore(chunk) ==
    CHOOSE v \in {EightScores(chunk)[type] : type \in EightTypes} :
        \A type \in EightTypes : EightScores(chunk)[type] <= v

\* C23: the primary type of an analysed chunk is a category holding the highest
\* of the eight scores exactly when that highest score is strictly greater than
\* 0.5; when the highest score is 0.5 or less the primary type is "general".
C23_PrimaryTypeThreshold ==
    (Enhanced /\ ~raised) =>
        \A i \in DOMAIN enhanced_documents :
            \A chunk \in {enhanced_documents[i]} :
                HasAnalysis(chunk) =>
                    /\ HighestScore(chunk) > 500 =>
                          /\ chunk.metadata.ramit_primary_type \in EightTypes
                          /\ EightScores(chunk)[chunk.metadata.ramit_primary_type]
                                = HighestScore(chunk)
                    /\ HighestScore(chunk) <= 500 =>
                          chunk.metadata.ramit_primary_type = "general"

\* a chunk whose highest score is the 0.5 of one step-sequence hit, typed "general"
C23_Witness ==
    /\ Enhanced /\ ~raised
    /\ \E i \in DOMAIN enhanced_documents :
          /\ HasAnalysis(enhanced_documents[i])
          /\ HighestScore(enhanced_documents[i]) = 500
          /\ enhanced_documents[i].metadata.ramit_tactical_score = 500
          /\ enhanced_documents[i].metadata.ramit_primary_type = "general"

(***************************************************************************)
(* The range of the authority score.                                       *)
(***************************************************************************)
\* the float num/(10 * den) + error units is at least tenths/10
AtLeastTenths(x, tenths) ==
    x.num > tenths * x.den \/ (x.num = tenths * x.den /\ x.error >= 0)

\* the float num/(10 * den) + error units is at most tenths/10
AtMostTenths(x, tenths) ==
    x.num < tenths * x.den \/ (x.num = tenths * x.den /\ x.error <= 0)

\* C24: for all match counts the authority score is the weighted mean
\* (high*1.0 + medium*0.6 + low*0.2)/(high+medium+low) when an indicator
\* matched and exactly 0.5 otherwise; it lies in [0, 1], and in [0.2, 1.0]
\* whenever an indicator matched.
C24_AuthorityScoreRange ==
    pc = "_calculate_authority_score" =>
        \E total \in {function_call.high_authority_count
                      + function_call.medium_authority_count
                      + function_call.low_authority_count} :
            /\ total = 0 => function_value = [num |-> 5, den |-> 1, error |-> 0]
            /\ total > 0 =>
                  /\ function_value.num = 10 * function_call.high_authority_count
                                          + 6 * function_call.medium_authority_count
                                          + 2 * function_call.low_authority_count
                  /\ function_value.den = total
                  /\ AtLeastTenths(function_value, 2)
            /\ AtLeastTenths(function_value, 0)
            /\ AtMostTenths(function_value, 10)

\* the float num/(10 * den) + error units is within a rounding step of tenths/10
\* and above: not below the double next below the literal, for tenths/10 in
\* [1/8, 1/4), where doubles are 320 * den units apart and the literal 0.2 lies
\* 128 * den units above 2/10
AtLeastDoubleBelowTwoTenths(x) ==
    x.num > 2 * x.den \/ (x.num = 2 * x.den /\ x.error >= 128 * x.den - 320 * x.den)

\* C24, as the floats have it: the score is the quotient of the weighted sum by
\* the number of matches, 0.5 without a match; it lies in [0, 1], and with a
\* match it is never below 0.19999999999999998, the double next below 0.2.
C24_AuthorityScoreWithinRounding ==
    pc = "_calculate_authority_score" =>
        \E total \in {function_call.high_authority_count
                      + function_call.medium_authority_count
                      + function_call.low_authority_count} :
            /\ total = 0 => function_value = [num |-> 5, den |-> 1, error |-> 0]
            /\ total > 0 =>
                  /\ function_value.num = 10 * function_call.high_authority_count
                                          + 6 * function_call.medium_authority_count
                                          + 2 * function_call.low_authority_count
                  /\ function_value.den = total
                  /\ AtLeastDoubleBelowTwoTenths(function_value)
            /\ AtLeastTenths(function_value, 0)
            /\ AtMostTenths(function_value, 10)

\* forty-three low authority matches and no other: the score is the double next
\* below 0.2
C24_Witness ==
    /\ pc = "_calculate_authority_score"
    /\ function_call.high_authority_count = 0
    /\ function_call.medium_authority_count = 0
    /\ function_call.low_authority_count = 43
    /\ function_value = [num |-> 86, den |-> 43, error |-> (128 - 320) * 43]

(***************************************************************************)
(* token_utils.  The tokenizer is a library outside the program; it is     *)
(* stood in for by one that makes a token of every TokenChars characters,  *)
(* so that decode(encode(text)) = text as with the library's encodings.    *)
(***************************************************************************)
TokenChars == 4

\* encoding.encode(text)
encode(text) ==
    [i \in 1..((Len(text) + TokenChars - 1) \div TokenChars) |->
        SubSeq(text, TokenChars * (i - 1) + 1, Min2(TokenChars * i, Len(text)))]

\* encoding.decode(tokens)
RECURSIVE decode(_)
decode(tokens) ==
    IF Len(tokens) = 0 THEN ""
    ELSE IF Len(tokens) = 1 THEN tokens[1]
    ELSE decode(SubSeq(tokens, 1, Len(tokens) \div 2))
         \o decode(SubSeq(tokens, Len(tokens) \div 2 + 1, Len(tokens)))

\* count_tokens(text), the tokenizer at hand
count_tokens(text) == Len(encode(text))

\* tokens[start:end] of Python, for 0 <= end <= len(tokens): a negative start
\* counts from the end of the list
slice(tokens, start, end) ==
    SubSeq(tokens, (IF start < 0 THEN (IF Len(tokens) + start < 0 THEN 0 ELSE Len(tokens) + start)
                    ELSE start) + 1, end)

\* one pass of the while loop of chunk_text_by_tokens from position start:
\* the chunk it appends, the next start, and whether it leaves by the break
chunk_step(tokens, max_tokens, overlap_tokens, start) ==
    LET end == Min2(start + max_tokens, Len(tokens))
    IN [chunk_text |-> decode(slice(tokens, start, end)),
        end |-> end,
        start |-> end - overlap_tokens,
        break |-> end - overlap_tokens >= end]

\* chunk_text_by_tokens(text, max_tokens, overlap_tokens): the chunks.  A pass
\* that does not break and leaves start where it was or before it is followed
\* by such passes for ever, start staying below len(tokens): the call diverges
RECURSIVE chunk_loop(_, _, _, _, _)
chunk_pass(tokens, max_tokens, overlap_tokens, start, chunk_list, step) ==
    IF step.break THEN [diverges |-> FALSE, chunks |-> Append(chunk_list, step.chunk_text)]
    ELSE IF step.start <= start
    THEN [diverges |-> TRUE, chunks |-> Append(chunk_list, step.chunk_text)]
    ELSE chunk_loop(tokens, max_tokens, overlap_tokens, step.start,
                    Append(chunk_list, step.chunk_text))

chunk_loop(tokens, max_tokens, overlap_tokens, start, chunk_list) ==
    IF ~(start < Len(tokens)) THEN [diverges |-> FALSE, chunks |-> chunk_list]
    ELSE chunk_pass(tokens, max_tokens, overlap_tokens, start, chunk_list,
                    chunk_step(tokens, max_tokens, overlap_tokens, start))

chunk_text_by_tokens(text, max_tokens, overlap_tokens) ==
    chunk_loop(encode(text), max_tokens, overlap_tokens, 0, <<>>)

\* validate_token_limit and truncate_to_token_limit
validate_token_limit(text, max_tokens) == count_tokens(text) <= max_tokens

truncate_to_token_limit(text, max_tokens) ==
    IF validate_token_limit(text, max_tokens) THEN text
    ELSE decode(SubSeq(encode(text), 1, max_tokens))

(***************************************************************************)
(* chunk_text_by_tokens step by step: every pass of its loop is a step.    *)
(* function_value holds the locals start, end and chunks; of chunks the   *)
(* first MaxEmitted are kept.                                              *)
(***************************************************************************)
MaxTokens == 4
MaxEmitted == 4
TokenTexts == {"", "one", "step", "Step 1: say hello.", "First, test and validate the price."}

InitChunkText ==
    /\ pc = "ready"
    /\ RetrieverIdle
    /\ ClassifierIdle
    /\ IngestIdle
    /\ expert_config = no_config
    /\ raised = FALSE
    /\ \E max_tokens \in 1..MaxTokens :
          function_call \in [function : {"chunk_text_by_tokens"},
                             text : TokenTexts,
                             max_tokens : {max_tokens},
                             overlap_tokens : 0..(max_tokens - 1)]
    /\ function_value = [start |-> 0, end |-> 0, chunks |-> <<>>]

\* a pass of the loop: while start < len(tokens), to the break or the next test
ChunkTextPass ==
    /\ pc \in {"ready", "while"}
    /\ function_value.start < Len(encode(function_call.text))
    /\ \E step \in {chunk_step(encode(function_call.text), function_call.max_tokens,
                               function_call.overlap_tokens, function_value.start)} :
          /\ function_value' =
                [start |-> step.start, end |-> step.end,
                 chunks |-> IF Len(function_value.chunks) < MaxEmitted
                            THEN Append(function_value.chunks, step.chunk_text)
                            ELSE function_value.chunks]
          /\ pc' = IF step.break THEN "return chunks" ELSE "while"
    /\ UNCHANGED <<function_call, retriever_vars, classifier_vars, ingest_vars,
                   expert_config, raised>>

\* the loop test fails: return chunks
ChunkTextReturn ==
    /\ pc \in {"ready", "while"}
    /\ ~(function_value.start < Len(encode(function_call.text)))
    /\ pc' = "return chunks"
    /\ UNCHANGED <<function_call, function_value, retriever_vars, classifier_vars,
                   ingest_vars, expert_config, raised>>

NextChunkText == ChunkTextPass \/ ChunkTextReturn
SpecChunkText == InitChunkText /\ [][NextChunkText]_vars
\* the interpreter runs the loop on: a pass that can be taken is taken
FairChunkText == SpecChunkText /\ WF_vars(NextChunkText)

\* C27: chunk_text_by_tokens terminates and returns a finite list of chunks for
\* every text and every setting with 0 <= overlap_tokens < max_tokens.
C27_ChunkTextTerminates ==
    (pc = "ready" /\ 0 <= function_call.overlap_tokens
                  /\ function_call.overlap_tokens < function_call.max_tokens)
        ~> (pc = "return chunks")

(***************************************************************************)
(* semantic_chunker.  A SemanticChunk is a record of its content, type,    *)
(* positions and metadata dict; the four scores of a chunk are computed    *)
(* when its Document is built.  Scores are in thousandths, a quotient is   *)
(* a record of its numerator and denominator.                              *)
(***************************************************************************)
SetMax(S) == CHOOSE m \in S : \A n \in S : n <= m

\* str.strip()
strip(s) ==
    LET inked == {i \in 1..Len(s) : ~IsSpace(Ch(s, i))}
    IN IF inked = {} THEN "" ELSE SubSeq(s, SetMin(inked), SetMax(inked))

\* s[-n:] and s[:n] of Python for n >= 0; s[-0:] is all of s
last_chars(s, n) == IF n = 0 \/ n >= Len(s) THEN s ELSE SubSeq(s, Len(s) - n + 1, Len(s))
first_chars(s, n) == SubSeq(s, 1, Min2(n, Len(s)))

\* SemanticChunker.__init__
SemanticChunker(macro_chunk_tokens, micro_chunk_tokens, overlap_tokens, max_chunk_tokens) ==
    [macro_chunk_tokens |-> macro_chunk_tokens,
     micro_chunk_tokens |-> micro_chunk_tokens,
     overlap_tokens |-> overlap_tokens,
     max_chunk_tokens |-> max_chunk_tokens,
     macro_chunk_size |-> macro_chunk_tokens * 4,
     micro_chunk_size |-> micro_chunk_tokens * 4,
     overlap_size |-> overlap_tokens * 4]

framework_indicators ==
    <<"customer research", "mind reading", "customer interviews", "winning offer",
      "irresistible offer", "anatomy of", "authentic selling", "sales process",
      "objection handling", "profit playbook", "business model", "revenue streams",
      "invisible scripts", "money dials", "limiting beliefs">>

tactical_indicators ==
    <<"step by step", "exact script", "word for word", "copy and paste", "template",
      "checklist", "process">>

\* sum(1 for term in terms if term in content)
count_terms(terms, content) == Cardinality({i \in DOMAIN terms : Contains(content, terms[i])})

\* the macro chunks made of the sub-chunks chunk_text_by_tokens returned
macro_split(sub_chunks, current_start, boundary_type) ==
    [i \in DOMAIN sub_chunks |->
        [content |-> sub_chunks[i], chunk_type |-> "macro",
         start_pos |-> current_start + ((i - 1) * Len(sub_chunks[i])) \div Len(sub_chunks),
         end_pos |-> current_start + (i * Len(sub_chunks[i])) \div Len(sub_chunks),
         metadata |-> ("boundary_type" :> boundary_type)
                      @@ ("token_count" :> count_tokens(sub_chunks[i]))
                      @@ ("split_chunk" :> TRUE)
                      @@ ("split_index" :> i - 1)]]

\* what chunk_text_by_tokens returned, as macro chunks; diverges if it does not
macro_of_split(returned, current_start, boundary_type) ==
    [diverges |-> returned.diverges,
     chunks |-> macro_split(returned.chunks, current_start, boundary_type)]

\* the macro chunks of one stretch of the content: the stretch itself when it
\* is within max_chunk_tokens, else what chunk_text_by_tokens makes of it
macro_pieces(self, chunk_content, current_start, end_pos, boundary_type) ==
    IF chunk_content = "" THEN [diverges |-> FALSE, chunks |-> <<>>]
    ELSE IF count_tokens(chunk_content) <= self.max_chunk_tokens
    THEN [diverges |-> FALSE,
          chunks |-> <<[content |-> chunk_content, chunk_type |-> "macro",
                        start_pos |-> current_start, end_pos |-> end_pos,
                        metadata |-> ("boundary_type" :> boundary_type)
                                     @@ ("token_count" :> count_tokens(chunk_content))]>>]
    ELSE macro_of_split(chunk_text_by_tokens(chunk_content, self.macro_chunk_tokens,
                                             self.overlap_tokens),
                        current_start, boundary_type)

major_boundary_types ==
    {"framework_start", "framework_end", "case_study_start", "case_study_end", "section_break"}

\* _create_macro_chunks from major boundary i on, then the final chunk
RECURSIVE macro_from(_, _, _, _, _, _)
macro_after(self, content, major_boundaries, i, current_start, chunk_list, pieces) ==
    IF pieces.diverges THEN [diverges |-> TRUE, chunks |-> chunk_list]
    ELSE macro_from(self, content, major_boundaries, i + 1, major_boundaries[i].position,
                    chunk_list \o pieces.chunks)

macro_final(self, content, current_start, chunk_list, pieces) ==
    [diverges |-> pieces.diverges, chunks |-> chunk_list \o pieces.chunks]

macro_from(self, content, major_boundaries, i, current_start, chunk_list) ==
    IF i > Len(major_boundaries)
    THEN IF current_start < Len(content)
         THEN macro_final(self, content, current_start, chunk_list,
                          macro_pieces(self, strip(SubSeq(content, current_start + 1, Len(content))),
                                       current_start, Len(content), "document_end"))
         ELSE [diverges |-> FALSE, chunks |-> chunk_list]
    ELSE IF major_boundaries[i].position - current_start > 200
    THEN macro_after(self, content, major_boundaries, i, current_start, chunk_list,
                     macro_pieces(self,
                                  strip(SubSeq(content, current_start + 1,
                                               major_boundaries[i].position)),
                                  current_start, major_boundaries[i].position,
                                  major_boundaries[i].boundary_type))
    ELSE macro_from(self, content, major_boundaries, i + 1, current_start, chunk_list)

_create_macro_chunks(self, content, boundaries) ==
    macro_from(self, content,
               SelectSeq(boundaries, LAMBDA b : b.boundary_type \in major_boundary_types),
               1, 0, <<>>)

\* macro_chunks.index(macro_chunk): the first chunk equal to it
index_of(macro_chunks, macro_chunk) ==
    SetMin({j \in DOMAIN macro_chunks : macro_chunks[j] = macro_chunk}) - 1

digit_string(n) ==
    IF n < 10 THEN SubSeq("0123456789", n + 1, n + 1)
    ELSE SubSeq("0123456789", (n \div 10) + 1, (n \div 10) + 1)
         \o SubSeq("0123456789", (n % 10) + 1, (n % 10) + 1)

\* the micro chunks of one macro chunk whose sub-chunks are given: each is cut
\* to max_chunk_tokens if it is above it; current_pos advances by their lengths
micro_split(self, macro_chunk, parent, sub_chunks) ==
    LET cut == [i \in DOMAIN sub_chunks |->
                   IF count_tokens(sub_chunks[i]) > self.max_chunk_tokens
                   THEN truncate_to_token_limit(sub_chunks[i], self.max_chunk_tokens)
                   ELSE sub_chunks[i]]
    IN [i \in DOMAIN cut |->
           [content |-> cut[i], chunk_type |-> "micro",
            start_pos |-> macro_chunk.start_pos + SumSeq([j \in 1..(i - 1) |-> Len(cut[j])]),
            end_pos |-> macro_chunk.start_pos + SumSeq([j \in 1..i |-> Len(cut[j])]),
            metadata |-> ("parent_chunk" :> ("macro_" \o digit_string(parent)))
                         @@ ("sub_chunk_index" :> i - 1)
                         @@ ("token_count" :> count_tokens(cut[i]))
                         @@ macro_chunk.metadata]]

micro_of_split(self, macro_chunk, parent, returned) ==
    [diverges |-> returned.diverges,
     chunks |-> micro_split(self, macro_chunk, parent, returned.chunks)]

\* _create_micro_chunks from macro chunk i on
RECURSIVE micro_from(_, _, _, _)
micro_after(self, macro_chunks, i, chunk_list, pieces) ==
    IF pieces.diverges THEN [diverges |-> TRUE, chunks |-> chunk_list]
    ELSE micro_from(self, macro_chunks, i + 1, chunk_list \o pieces.chunks)

micro_from(self, macro_chunks, i, chunk_list) ==
    IF i > Len(macro_chunks) THEN [diverges |-> FALSE, chunks |-> chunk_list]
    ELSE IF count_tokens(macro_chunks[i].content) > self.macro_chunk_tokens
    THEN micro_after(self, macro_chunks, i, chunk_list,
                     micro_of_split(self, macro_chunks[i], index_of(macro_chunks, macro_chunks[i]),
                                    chunk_text_by_tokens(macro_chunks[i].content,
                                                         self.micro_chunk_tokens,
                                                         self.overlap_tokens)))
    ELSE micro_from(self, macro_chunks, i + 1, chunk_list)

_create_micro_chunks(self, macro_chunks) == micro_from(self, macro_chunks, 1, <<>>)

\* the context chunk between macro chunks i and i + 1 (counted from 0), with
\* the overlap content given; none if the content is 100 characters or less
context_chunk(self, macro_chunks, i, overlap_content) ==
    IF Len(strip(overlap_content)) > 100
    THEN LET cut == IF count_tokens(strip(overlap_content)) > self.max_chunk_tokens
                    THEN truncate_to_token_limit(strip(overlap_content), self.max_chunk_tokens)
                    ELSE overlap_content
         IN <<[content |-> strip(cut), chunk_type |-> "context",
               start_pos |-> IF macro_chunks[i + 1].end_pos - self.overlap_size < 0 THEN 0
                             ELSE macro_chunks[i + 1].end_pos - self.overlap_size,
               end_pos |-> Min2(Len(macro_chunks[i + 1].content) + Len(macro_chunks[i + 2].content),
                                macro_chunks[i + 2].start_pos + self.overlap_size),
               metadata |-> ("context_between" :>
                                ("macro_" \o digit_string(i) \o "_and_macro_"
                                 \o digit_string(i + 1)))
                            @@ ("transition_type" :> "macro_boundary")
                            @@ ("token_count" :>
                                  IF count_tokens(strip(overlap_content)) > self.max_chunk_tokens
                                  THEN count_tokens(cut)
                                  ELSE count_tokens(strip(overlap_content)))]>>
    ELSE <<>>

\* _create_context_chunks from the pair at i (counted from 0) on
RECURSIVE context_from(_, _, _)
context_from(self, macro_chunks, i) ==
    IF i >= Len(macro_chunks) - 1 THEN <<>>
    ELSE context_chunk(self, macro_chunks, i,
                       last_chars(macro_chunks[i + 1].content, (self.overlap_tokens * 4) \div 2)
                       \o " "
                       \o first_chars(macro_chunks[i + 2].content,
                                      (self.overlap_tokens * 4) \div 2))
         \o context_from(self, macro_chunks, i + 1)

_create_context_chunks(self, macro_chunks) == context_from(self, macro_chunks, 0)

\* _calculate_quality_score: the mean of the scores it collects
_calculate_quality_score(chunk) ==
    LET content == lower(chunk.content)
        framework_terms == count_terms(framework_indicators, content)
        tactical_terms == count_terms(tactical_indicators, content)
        scores ==
            <<IF Contains(content, ".") \/ Contains(content, "!") \/ Contains(content, "?")
              THEN 800 ELSE 300>>
            \o (IF framework_terms > 0 THEN <<Min2(1000, framework_terms * 300)>> ELSE <<>>)
            \o (IF tactical_terms > 0 THEN <<Min2(1000, tactical_terms * 300)>> ELSE <<>>)
            \o <<IF Len(chunk.content) < 100 THEN 200
                 ELSE IF Len(chunk.content) < 300 THEN 600 ELSE 900>>
    IN [num |-> SumSeq(scores), den |-> Len(scores)]

complete_indicators ==
    <<"in summary", "to recap", "the point is", "remember", "that's how", "that's why",
      "so we can see">>

incomplete_indicators ==
    <<"for example", "such as", "including", "like", "but first", "next we'll", "then we">>

\* len([s for s in content.split('.') if len(s.strip()) > 20])
complete_sentences(content) ==
    LET dots == {0, Len(content) + 1} \cup {i \in 1..Len(content) : Ch(content, i) = "."}
    IN Cardinality({a \in dots \ {Len(content) + 1} :
                       Len(strip(SubSeq(content, a + 1,
                                        SetMin({b \in dots : b > a}) - 1))) > 20})

_evaluate_conceptual_completeness(chunk) ==
    LET content == lower(chunk.content)
        base_score == IF complete_sentences(content) > 0 THEN 700 ELSE 300
        adjustment == (count_terms(complete_indicators, content)
                       - count_terms(incomplete_indicators, content)) * 100
    IN Min2(1000, IF base_score + adjustment < 0 THEN 0 ELSE base_score + adjustment)

structure_indicators ==
    <<"step ", "first", "second", "next", "then", "finally", "component", "element", "part",
      "phase">>

\* min(1.0, (framework_density + structure_density) * 2), the densities being
\* counts per word times 100
_evaluate_framework_coherence(chunk) ==
    LET content == lower(chunk.content)
        counted == count_terms(framework_indicators, content)
                   + count_terms(structure_indicators, content)
        content_length == split_len(content)
    IN IF content_length > 0
       THEN [num |-> Min2(content_length * 1000, counted * 200000), den |-> content_length]
       ELSE [num |-> 0, den |-> 1]

imperative_indicators ==
    <<"do this", "try this", "use this", "remember to", "make sure", "don't forget", "always",
      "never">>

\* int(s) for a string of digits
RECURSIVE int(_)
int(s) ==
    IF Len(s) = 0 THEN 0
    ELSE 10 * int(SubSeq(s, 1, Len(s) - 1))
         + (CHOOSE d \in 0..9 : SubSeq("0123456789", d + 1, d + 1) = Ch(s, Len(s)))

\* re.findall(r"step\s+(\d+)", content): the numbers of the steps, in order
step_numbers(content) ==
    LET starts == MatchStarts("step\\s+(\\d+)", content, FALSE)
        number(s) ==
            LET e == MatchAt("step\\s+(\\d+)", content, s, FALSE) - 1
            IN int(SubSeq(content, SetMin({d \in s..e : \A x \in d..e : IsDigit(Ch(content, x))}),
                          e))
    IN [n \in 1..Cardinality(starts) |->
           number(CHOOSE s \in starts : Cardinality({x \in starts : x <= s}) = n)]

_evaluate_tactical_integrity(chunk) ==
    LET content == lower(chunk.content)
        steps == step_numbers(content)
    IN IF Len(steps) > 1
       THEN IF \A i \in 1..(Len(steps) - 1) : steps[i] + 1 = steps[i + 1] THEN 900 ELSE 600
       ELSE Min2(1000, (count_terms(tactical_indicators, content)
                        + count_terms(imperative_indicators, content)) * 200)

\* a plausible slip: the Documents carry the chunk's keys alone
_chunks_to_documents_chunk_keys(chunk_list, base_metadata) ==
    [i \in DOMAIN chunk_list |->
        [page_content |-> chunk_list[i].content,
         metadata |->
            chunk_list[i].metadata
            @@ ("chunk_id" :> (chunk_list[i].chunk_type \o "_" \o digit_string(i - 1)))
            @@ ("chunk_type" :> chunk_list[i].chunk_type)
            @@ ("semantic_quality_score" :> _calculate_quality_score(chunk_list[i]))
            @@ ("conceptual_completeness" :> _evaluate_conceptual_completeness(chunk_list[i]))
            @@ ("framework_coherence" :> _evaluate_framework_coherence(chunk_list[i]))
            @@ ("tactical_integrity" :> _evaluate_tactical_integrity(chunk_list[i]))
            @@ ("chunk_length" :> Len(chunk_list[i].content))]]

\* _chunks_to_documents: base_metadata.copy() updated with the chunk's keys, the
\* keys of chunk.metadata last
_chunks_to_documents(chunk_list, base_metadata) ==
    [i \in DOMAIN chunk_list |->
        [page_content |-> chunk_list[i].content,
         metadata |->
            chunk_list[i].metadata
            @@ ("chunk_id" :> (chunk_list[i].chunk_type \o "_" \o digit_string(i - 1)))
            @@ ("chunk_type" :> chunk_list[i].chunk_type)
            @@ ("semantic_quality_score" :> _calculate_quality_score(chunk_list[i]))
            @@ ("conceptual_completeness" :> _evaluate_conceptual_completeness(chunk_list[i]))
            @@ ("framework_coherence" :> _evaluate_framework_coherence(chunk_list[i]))
            @@ ("tactical_integrity" :> _evaluate_tactical_integrity(chunk_list[i]))
            @@ ("chunk_length" :> Len(chunk_list[i].content))
            @@ base_metadata]]

\* chunk_document once the macro chunks are made: the micro and context chunks
\* after them, all as Documents; diverges when a call of chunk_text_by_tokens
\* does not return
chunk_document_micro(self, doc, macro_chunks, micro) ==
    IF micro.diverges THEN [diverges |-> TRUE, documents |-> <<>>]
    ELSE [diverges |-> FALSE,
          documents |-> _chunks_to_documents(
                            macro_chunks \o micro.chunks
                            \o _create_context_chunks(self, macro_chunks),
                            doc.metadata)]

chunk_document_macro(self, doc, macro) ==
    IF macro.diverges THEN [diverges |-> TRUE, documents |-> <<>>]
    ELSE chunk_document_micro(self, doc, macro.chunks,
                              _create_micro_chunks(self, macro.chunks))

\* chunk_document(doc), the boundaries being those _detect_boundaries finds
chunk_document(self, doc, boundaries) ==
    chunk_document_macro(self, doc,
                         _create_macro_chunks(self, doc.page_content, boundaries))

(***************************************************************************)
(* Chunking a document: a page, its metadata and the settings of the       *)
(* chunker are drawn; chunk_document runs, and the chunks are analysed as  *)
(* split_documents has them analysed.  With each page come the boundaries  *)
(* that _detect_boundaries finds in it.                                    *)
(***************************************************************************)
ChunkerPages ==
    {
     [page_content |->
        "First, test and validate the price.",
      boundaries |->
        <<[position |-> 0, boundary_type |-> "tactical_sequence"]>>],
     [page_content |->
        "Ramit: Most people think pricing is guesswork. Business isn't magic, i"
        \o "t's math. Start with customer research: ask ten customers what they pa"
        \o "id last year and why, then write down their exact words and read them "
        \o "back. In summary, test the price before you build. For example, one st"
        \o "udent raised her rate to $5,000 and kept every client.",
      boundaries |->
        <<[position |-> 0, boundary_type |-> "dialogue_exchange"],
          [position |-> 0, boundary_type |-> "dialogue_exchange"],
          [position |-> 100, boundary_type |-> "dialogue_exchange"],
          [position |-> 162, boundary_type |-> "tactical_sequence"]>>],
     [page_content |->
        "Step 1: list your services. Step 2: pick one offer. Always test it wit"
        \o "h five real buyers before you write the sales page, and never discount"
        \o " it on the first call. Make sure you use this checklist word for word "
        \o "when you follow up with them.\n\nMOVING ON\nStudent story: Sarah used cus"
        \o "tomer interviews to find her winning offer, and that's why her launch "
        \o "worked.",
      boundaries |->
        <<[position |-> 0, boundary_type |-> "framework_start"],
          [position |-> 0, boundary_type |-> "tactical_sequence"],
          [position |-> 239, boundary_type |-> "section_break"],
          [position |-> 241, boundary_type |-> "section_break"],
          [position |-> 251, boundary_type |-> "case_study_start"],
          [position |-> 259, boundary_type |-> "dialogue_exchange"]>>]}

\* the metadata of a page as load_pdfs_from_directory leaves it, without and
\* with the classification of the document
loaded_metadata ==
    [source |-> "pdfs/pricing/lesson_3.pdf", module |-> "pricing", filename |-> "lesson_3.pdf",
     page |-> 2]

classified_metadata ==
    [document_source_type |-> "structured_lesson",
     teaching_context |-> "systematic_instruction",
     confidence_level |-> "high_confidence",
     authority_score |-> [num |-> 800, den |-> 1],
     classification_confidence |-> 700,
     framework_density |-> 120, tactical_density |-> 0, case_study_density |-> 40,
     contrarian_density |-> 0,
     classification_evidence |-> "Found 2 matches for lesson\\s+\\d+"]
    @@ loaded_metadata

MacroChunkTokens == {30, 60, 1500}
MicroChunkTokens == {10, 800}
OverlapTokens == {0, 30, 150}
MaxChunkTokens == {50, 70, 2000}

InitChunk ==
    /\ pc = "ready"
    /\ RetrieverIdle
    /\ classifier = "none"
    /\ classification = unclassified
    /\ expert_config = ramit_config
    /\ raised = FALSE
    /\ set_order \in SetOrders
    /\ chunks = <<>>
    /\ enhanced_documents = <<>>
    /\ \E page \in ChunkerPages :
          /\ document \in [page_content : {page.page_content},
                           metadata : {loaded_metadata, classified_metadata}]
          /\ function_call \in
                [function : {"chunk_document"},
                 macro_chunk_tokens : MacroChunkTokens,
                 micro_chunk_tokens : MicroChunkTokens,
                 overlap_tokens : OverlapTokens,
                 max_chunk_tokens : MaxChunkTokens,
                 boundaries : {page.boundaries}]
    /\ function_value = 0

\* SemanticChunker(...).chunk_document(document); a call that does not return
\* leaves the program in it
ChunkDocument ==
    /\ pc = "ready"
    /\ \E returned \in {chunk_document(SemanticChunker(function_call.macro_chunk_tokens,
                                                       function_call.micro_chunk_tokens,
                                                       function_call.overlap_tokens,
                                                       function_call.max_chunk_tokens),
                                       document, function_call.boundaries)} :
          /\ pc' = IF returned.diverges THEN "in chunk_document" ELSE "chunk_document"
          /\ chunks' = returned.documents
    /\ UNCHANGED <<set_order, enhanced_documents, document, classifier, classification,
                   retriever_vars, expert_config, raised, function_vars>>

\* split_documents after semantic chunking: enhance_document_metadata(chunks)
EnhanceChunks ==
    /\ pc = "chunk_document"
    /\ pc' = "split_documents"
    /\ \E returned \in {split_documents_enhance(chunks, TRUE, expert_config, set_order)} :
          /\ chunks' = returned
          /\ enhanced_documents' = returned
    /\ UNCHANGED <<set_order, document, classifier, classification, retriever_vars,
                   expert_config, raised, function_vars>>

NextChunk == ChunkDocument \/ EnhanceChunks
SpecChunk == InitChunk /\ [][NextChunk]_vars

(***************************************************************************)
(* Properties of chunking.                                                 *)
(***************************************************************************)
\* the chunk holds every field of the metadata with the same value
Carries(chunk, metadata) ==
    \A key \in DOMAIN metadata :
        key \in DOMAIN chunk.metadata /\ chunk.metadata[key] = metadata[key]

\* C25: every chunk made from a document carries all the metadata fields of the
\* document, the classification fields among them, with unchanged values, after
\* the chunker has added its keys and after the analyzer has added its own.
C25_ChunksCarryDocumentMetadata ==
    pc \in {"chunk_document", "split_documents"} =>
        \A i \in DOMAIN chunks : Carries(chunks[i], document.metadata)

\* a classified page chunked into macro and context chunks and analysed
C25_Witness ==
    /\ pc = "split_documents"
    /\ "document_source_type" \in DOMAIN document.metadata
    /\ \E i \in DOMAIN chunks :
          /\ chunks[i].metadata["chunk_type"] = "context"
          /\ HasAnalysis(chunks[i])
          /\ Carries(chunks[i], document.metadata)

(***************************************************************************)
(* The signatures field of a chunk, joined by the analyzer and split by    *)
(* the scorer.                                                             *)
(***************************************************************************)
\* expert_signatures.split(",") if expert_signatures else []
split_signatures(expert_signatures) ==
    LET commas == {0, Len(expert_signatures) + 1}
                  \cup {i \in 1..Len(expert_signatures) : Ch(expert_signatures, i) = ","}
        starts == commas \ {Len(expert_signatures) + 1}
    IN IF expert_signatures = "" THEN <<>>
       ELSE [n \in 1..Cardinality(starts) |->
               LET a == CHOOSE s \in starts : Cardinality({x \in starts : x <= s}) = n
               IN SubSeq(expert_signatures, a + 1, SetMin({b \in commas : b > a}) - 1)]

\* the signature phrases the analyzer matches in the text of the chunk
MatchedSignatures(chunk) ==
    _analyze_signatures(Analyzer.signatures, 1, lower(chunk.page_content),
                        initial_analysis).signatures

\* C26: splitting the comma-joined signatures field of a chunk on "," yields
\* exactly the list of signature phrases the analyzer matched in the chunk, and
\* the count of its non-blank parts, which the scorer multiplies by 0.1 and caps
\* at 0.3, is the number of matched phrases.
C26_SignaturesSurviveJoin ==
    (Enhanced /\ ~raised) =>
        \A i \in DOMAIN enhanced_documents :
            HasAnalysis(enhanced_documents[i]) =>
                /\ split_signatures(enhanced_documents[i].metadata.ramit_signatures)
                      = MatchedSignatures(enhanced_documents[i])
                /\ CountNonBlankParts(enhanced_documents[i].metadata.ramit_signatures, 1, FALSE)
                      = Len(MatchedSignatures(enhanced_documents[i]))

\* C28: every chunk (macro, micro or context) that chunk_document emits has a
\* token count of at most max_chunk_tokens, for every drawn page and every
\* macro/micro/overlap setting.
C28_ChunksWithinHardLimit ==
    pc = "chunk_document" =>
        \A i \in DOMAIN chunks :
            /\ count_tokens(chunks[i].page_content) <= function_call.max_chunk_tokens
            /\ chunks[i].metadata.token_count <= function_call.max_chunk_tokens

(***************************************************************************)
(* vector_store: _process_document_batch, one batch handed to the store    *)
(* with retries.  The store is the list of the documents it holds; a call  *)
(* of the engine (Chroma.from_documents, add_documents) either adds the    *)
(* whole batch or raises one of the drawn errors and adds nothing.         *)
(***************************************************************************)
max_retries == 3
retry_delay == 2
MaxBatch == 2

NoStore == [class |-> "NoneType", documents |-> <<>>]
Chroma(documents) == [class |-> "Chroma", documents |-> documents]

\* the batches handed to the function, and the stores that exist before it
BatchDocuments == {[i \in 1..n |-> digit_string(i)] : n \in 1..MaxBatch}
ExistingStores == {NoStore, Chroma(<<"0">>)}
\* the outcomes of a call of the engine: done, or the message of the error
EngineErrors == {"This model's maximum context length is 8192 tokens",
                 "Token limit exceeded", "Rate limit reached", "Connection reset"}
EngineOutcomes == {"done"} \cup EngineErrors

\* the try block: create the store, or add to the existing one
try_add(documents, existing_store) ==
    IF existing_store = NoStore THEN Chroma(documents)
    ELSE Chroma(existing_store.documents \o documents)

\* the except block of an attempt that retries the last token error as well
except_block_retry_last(e, attempt, delay) ==
    IF Contains(lower(e), "token")
    THEN [sleep |-> delay, retry_delay |-> delay * 2, raise |-> FALSE]
    ELSE [sleep |-> 0, retry_delay |-> delay, raise |-> attempt = max_retries - 1]
\* the except block: what it sleeps, the next delay, and whether it re-raises
except_block(e, attempt, delay) ==
    IF Contains(lower(e), "token") /\ attempt < max_retries - 1
    THEN [sleep |-> delay, retry_delay |-> delay * 2, raise |-> FALSE]
    ELSE [sleep |-> 0, retry_delay |-> delay, raise |-> attempt = max_retries - 1]

InitProcessBatch ==
    /\ pc = "ready"
    /\ RetrieverIdle
    /\ ClassifierIdle
    /\ IngestIdle
    /\ expert_config = no_config
    /\ raised = FALSE
    /\ function_call \in [function : {"_process_document_batch"},
                          documents : BatchDocuments,
                          existing_store : ExistingStores]
    /\ function_value = [attempt |-> 0, retry_delay |-> retry_delay, slept |-> 0,
                         calls |-> <<>>, store |-> function_call.existing_store,
                         returned |-> NoStore]

\* one pass of "for attempt in range(max_retries)": the store does the work and
\* the function returns, or the store raises and the except block runs
ProcessBatchAttempt ==
    /\ pc \in {"ready", "for attempt"}
    /\ function_value.attempt < max_retries
    /\ \E outcome \in EngineOutcomes :
          IF outcome = "done"
          THEN /\ function_value' =
                     [function_value EXCEPT
                        !.calls = Append(@, outcome),
                        !.store = try_add(function_call.documents,
                                          function_call.existing_store),
                        !.returned = try_add(function_call.documents,
                                             function_call.existing_store)]
               /\ pc' = "return vector_store"
               /\ raised' = FALSE
          ELSE \E handled \in {except_block(outcome, function_value.attempt,
                                            function_value.retry_delay)} :
                  /\ function_value' =
                        [function_value EXCEPT
                           !.calls = Append(@, outcome),
                           !.slept = @ + handled.sleep,
                           !.retry_delay = handled.retry_delay,
                           !.attempt = IF handled.raise THEN @ ELSE @ + 1,
                           !.returned =
                               IF ~handled.raise
                                  /\ function_value.attempt + 1 = max_retries
                               THEN function_call.existing_store ELSE @]
                  /\ pc' = IF handled.raise THEN "raise"
                           ELSE IF function_value.attempt + 1 < max_retries
                                THEN "for attempt"
                                ELSE "return existing_store"
                  /\ raised' = handled.raise
    /\ UNCHANGED <<function_call, retriever_vars, classifier_vars, ingest_vars,
                   expert_config>>

NextProcessBatch == ProcessBatchAttempt
SpecProcessBatch == InitProcessBatch /\ [][NextProcessBatch]_vars

\* the store holds the batch: its documents end with the documents of the call
BatchAdded(store) ==
    /\ store.class = "Chroma"
    /\ Len(store.documents) >= Len(function_call.documents)
    /\ SubSeq(store.documents,
              Len(store.documents) - Len(function_call.documents) + 1,
              Len(store.documents)) = function_call.documents

\* C29: _process_document_batch calls the store at most 3 times for a batch; it
\* returns a store only after a call succeeded in adding the batch; when the
\* third call fails it raises; it never returns the existing store without the
\* batch having been added.
C29_ReturnsOnlyAfterSuccess ==
    function_call.function = "_process_document_batch" =>
        /\ Len(function_value.calls) <= 3
        /\ pc \in {"return vector_store", "return existing_store"} =>
              /\ function_value.calls[Len(function_value.calls)] = "done"
              /\ BatchAdded(function_value.returned)
              /\ function_value.returned = function_value.store
        /\ (Len(function_value.calls) = 3 /\ function_value.calls[3] # "done") =>
              (pc = "raise" /\ raised)
        /\ pc # "return existing_store"

\* the third call succeeded after a token error and another error, and the
\* batch was added to the store that existed
C29_Witness ==
    /\ pc = "return vector_store"
    /\ Len(function_value.calls) = 3
    /\ function_value.calls[1] = "Token limit exceeded"
    /\ function_value.calls[2] = "Connection reset"
    /\ function_call.existing_store # NoStore
    /\ function_value.returned = Chroma(<<"0">> \o function_call.documents)
    /\ function_value.slept = 2

(***************************************************************************)
(* vector_store: _split_batch_by_tokens, a batch split by token count.     *)
(***************************************************************************)
MaxDocs == 3
MaxDocTokens == 3
MaxBatchTokens == 3

\* the body of "for doc in documents" that starts a new batch for every
\* document that does not fit, whether or not the current batch holds one
split_step_unguarded(state, doc, max_tokens) ==
    IF state.current_tokens + count_tokens(doc.page_content) > max_tokens
    THEN [batches |-> Append(state.batches, state.current_batch),
          current_batch |-> <<doc>>,
          current_tokens |-> count_tokens(doc.page_content)]
    ELSE [batches |-> state.batches,
          current_batch |-> Append(state.current_batch, doc),
          current_tokens |-> state.current_tokens + count_tokens(doc.page_content)]
\* the body of "for doc in documents"
split_step(state, doc, max_tokens) ==
    IF state.current_tokens + count_tokens(doc.page_content) > max_tokens
       /\ state.current_batch # <<>>
    THEN [batches |-> Append(state.batches, state.current_batch),
          current_batch |-> <<doc>>,
          current_tokens |-> count_tokens(doc.page_content)]
    ELSE [batches |-> state.batches,
          current_batch |-> Append(state.current_batch, doc),
          current_tokens |-> state.current_tokens + count_tokens(doc.page_content)]

RECURSIVE split_from(_, _, _, _)
split_from(documents, i, max_tokens, state) ==
    IF i > Len(documents) THEN state
    ELSE split_from(documents, i + 1, max_tokens,
                    split_step(state, documents[i], max_tokens))

_split_batch_by_tokens(documents, max_tokens) ==
    LET state == split_from(documents, 1, max_tokens,
                            [batches |-> <<>>, current_batch |-> <<>>,
                             current_tokens |-> 0])
    IN IF state.current_batch # <<>> THEN Append(state.batches, state.current_batch)
       ELSE state.batches

\* page texts of 0..MaxDocTokens tokens
BatchText == "Start with customer research, then test the price before you build."
BatchTexts == {SubSeq(BatchText, 1, TokenChars * n) : n \in 0..MaxDocTokens}
\* the documents of a batch: the i-th carries page i
BatchOf(texts) ==
    [i \in DOMAIN texts |-> [page_content |-> texts[i], metadata |-> [page |-> i]]]

InitSplitBatch ==
    /\ pc = "ready"
    /\ RetrieverIdle
    /\ ClassifierIdle
    /\ IngestIdle
    /\ expert_config = no_config
    /\ raised = FALSE
    /\ \E n \in 0..MaxDocs : \E texts \in [1..n -> BatchTexts] :
          function_call \in [function : {"_split_batch_by_tokens"},
                             documents : {BatchOf(texts)},
                             max_tokens : 0..MaxBatchTokens]
    /\ function_value = <<>>

SplitBatchByTokens ==
    /\ pc = "ready"
    /\ function_call.function = "_split_batch_by_tokens"
    /\ pc' = "_split_batch_by_tokens"
    /\ function_value' = _split_batch_by_tokens(function_call.documents,
                                                function_call.max_tokens)
    /\ UNCHANGED <<function_call, retriever_vars, classifier_vars, ingest_vars,
                   expert_config, raised>>

NextSplitBatch == SplitBatchByTokens
SpecSplitBatch == InitSplitBatch /\ [][NextSplitBatch]_vars

\* the batches, one after the other
RECURSIVE Concatenation(_)
Concatenation(batches) ==
    IF batches = <<>> THEN <<>> ELSE Head(batches) \o Concatenation(Tail(batches))

\* sum(count_tokens(doc.page_content) for doc in batch)
BatchTokens(batch) == SumSeq([i \in DOMAIN batch |-> count_tokens(batch[i].page_content)])

\* C30: the batches _split_batch_by_tokens returns, concatenated, are exactly
\* the input list of documents; no batch is empty; every batch of more than
\* one document has at most max_tokens tokens in total.
C30_SplitBatchPartition ==
    pc = "_split_batch_by_tokens" =>
        /\ Concatenation(function_value) = function_call.documents
        /\ \A b \in DOMAIN function_value :
              /\ function_value[b] # <<>>
              /\ Len(function_value[b]) > 1 =>
                    BatchTokens(function_value[b]) <= function_call.max_tokens

\* a batch of two documents that fills max_tokens, followed by a batch of one
\* document that alone exceeds it
C30_Witness ==
    /\ pc = "_split_batch_by_tokens"
    /\ Len(function_call.documents) = 3
    /\ Len(function_value) = 2
    /\ Len(function_value[1]) = 2
    /\ BatchTokens(function_value[1]) = function_call.max_tokens
    /\ BatchTokens(function_value[2]) > function_call.max_tokens

====
